---- MODULE Spec2Model ----
(***************************************************************************)
(* Verification model of the event-scraper reconciliation engine:          *)
(*   - executeWithRetry (src/utils/shared.ts, Scraper.executeWithRetry):   *)
(*     retry with exponential backoff and a circuit breaker;               *)
(*   - DbService.processAndCreateEvents (src/services/ai.ts): the          *)
(*     per-venue ingestion pipeline over the event store.                  *)
(***************************************************************************)
EXTENDS Integers, Sequences, FiniteSets, TLC

VARIABLES
  \* ---- retry / circuit breaker (RetryConfig, Scraper fields) ----
  config,           \* the immutable part of RetryConfig
  failureCount,     \* config.failureCount
  lastFailureTime,  \* config.lastFailureTime
  circuitOpen,      \* config.circuitOpen
  now,              \* Date.now(), in ms
  pc,               \* position of the executeWithRetry call: idle | running | waiting
  attempt,          \* loop variable of the for loop
  lastError,        \* local lastError
  outcome,          \* how the last finished call ended
  opCalls,          \* invocations of fn() by the current / last call
  waited,           \* the setTimeout delays of the current / last call
  halfOpened,       \* the current / last call re-closed an open circuit at its start
  failedCalls,      \* consecutive calls that ended with a throw (saturating)
  totalCalls,       \* calls started since construction (saturating)
  \* ---- event store (Prisma) ----
  events,           \* the Event table, in insertion order; id = position
  artists,          \* the Artist table: names, in insertion order; id = position
  \* ---- DbService.processAndCreateEvents ----
  pipe,             \* idle | loop | persist
  scrapedEvents,    \* the argument of the current / last run
  idx,              \* position of the for loop over scrapedEvents
  transactionData,  \* local transactionData
  inflight,         \* positions of transactionData whose create is awaited
  txnResults,       \* results of the settled callbacks: position -> event id or 0 (null)
  threw,            \* the current / last run rejected (Promise.all rejected)
  runs,             \* finished runs
  faults,           \* transient store failures injected so far
  classified,       \* per candidate of the run: its classification and matched event
  eventsBefore,     \* Len(events) when the current / last run started
  eventsPrevRun,    \* Len(events) when the run before it started
  rowOf,            \* per candidate of the run: its position in transactionData, or 0
  createFailed,     \* positions of transactionData whose create failed transiently
  returned,         \* the list the last run returned (empty until then, or if it rejected)
  \* ---- the venue loop (scrapeAndProcess, scrapeAndProcessAllProviders) ----
  multiProvider,    \* env.MULTI_PROVIDER
  venues,           \* what db.getVenues() returned
  vpc,              \* next | fetch | extract | reconcile | pause | done | crashed
  vIdx,             \* position of the for loop over the venues
  provIdx,          \* position of the for loop over AI_PROVIDER_NAMES
  attempts,         \* per venue: how often its processing was started
  extracted,        \* what the extraction step returned: none | events | empty
  lastExtract,      \* how the retried extraction calls of that step ended
  venueLog,         \* per finished pass over a venue: how it ended
  pausedSince,      \* a wait() was completed since the last venue was started
  \* ---- AiService.callRagChain / Scraper.callRagChain ----
  ragPc,            \* idle | invoking | waiting | done
  ragAttempts,      \* local attempts
  ragLog,           \* how each ragChain.invoke of the current / last call ended
  ragWaits,         \* the setTimeout delays of the current / last call
  ragReturn,        \* what the last call returned: pending | data | undefined
  ragCalls,         \* calls of callRagChain started so far
  \* ---- DbService.checkForDuplicatesAndConflicts applied to one candidate ----
  mEvent,           \* the candidate it is given
  mResult,          \* <<what it returned>>, or <<>> before it has
  \* ---- DbService.calculateSimilarityScore on a pair of names ----
  nameA,            \* one normalized name
  nameB,            \* the other normalized name
  scoreFwd,         \* the score of nameB against nameA, or <<>> before the call
  scoreBwd,         \* the score of nameA against nameB, or <<>> before the call
  \* ---- Database.processAndCreateEvents of the first revision ----
  legPc,            \* idle | loop | transaction | done
  legEvents,        \* the argument of the run
  legIdx,           \* position of the for loop over it
  legTxn,           \* local transactionData
  legThrew,         \* the run rejected
  \* ---- convertToTimeZone applied to one date string ----
  dateStr,          \* its argument
  dateOut,          \* <<what it returned or threw>>, or <<>> before the call
  \* ---- sendWithRetries ----
  sendRetries,      \* argument retries
  sendDuration,     \* argument duration
  sendPc,           \* idle | called | calling | waiting | done
  sendAttempt,      \* loop variable attempt
  sendLog,          \* how each call of the callback ended
  sendWaits,        \* the delays waited
  sendResult,       \* pending | threw | the value returned
  sendError,        \* the number of the attempt whose error was thrown, or 0
  \* ---- deduplicateEvents applied to one list ----
  dedupIn,          \* its argument
  dedupOut,         \* <<its result>>, or <<>> before the call
  dedupAgain,       \* <<its result on its own result>>, or <<>>
  \* ---- one call of Scraper.getEvents / AiService.parseScrapedHTML ----
  gShared,          \* TRUE: Scraper (breaker fields of the instance);
                    \* FALSE: AiService (a new default state per retry call)
  gPc,              \* position of the call
  gOuter,           \* attempt of the executeWithRetry call made by the method
  gStep,            \* the retried step of parse() that is running
  gInner,           \* attempt of the executeWithRetry call made by parse()
  gCount,           \* failureCount of the breaker state in use
  gOpen,            \* circuitOpen of the breaker state in use
  gErr,             \* the error on its way to the method's catch
  gResult,          \* what the method gave its caller
  gLeafCalls        \* invocations of retried operations so far

execVars == <<config, failureCount, lastFailureTime, circuitOpen, now, pc,
              attempt, lastError, outcome, opCalls, waited, halfOpened,
              failedCalls, totalCalls>>

storeVars == <<events, artists>>

pipeVars == <<pipe, scrapedEvents, idx, transactionData, inflight, txnResults,
              threw, runs, faults, classified, eventsBefore, eventsPrevRun,
              rowOf, createFailed, returned>>

venueVars == <<multiProvider, venues, vpc, vIdx, provIdx, attempts, extracted,
               lastExtract, venueLog, pausedSince>>

ragVars == <<ragPc, ragAttempts, ragLog, ragWaits, ragReturn, ragCalls>>

matchVars == <<mEvent, mResult>>

scoreVars == <<nameA, nameB, scoreFwd, scoreBwd>>

legacyVars == <<legPc, legEvents, legIdx, legTxn, legThrew>>

\* the parts of the state that the retry wrapper, the pipeline and the venue
\* loop never touch
normVars == <<dateStr, dateOut>>

sendVars == <<sendRetries, sendDuration, sendPc, sendAttempt, sendLog,
              sendWaits, sendResult, sendError>>

dedupVars == <<dedupIn, dedupOut, dedupAgain>>

getVars == <<gShared, gPc, gOuter, gStep, gInner, gCount, gOpen, gErr,
             gResult, gLeafCalls>>

extraVars == <<normVars, sendVars, dedupVars, getVars>>

auxVars == <<ragVars, matchVars, scoreVars, legacyVars, extraVars>>

vars == <<execVars, storeVars, pipeVars, venueVars, auxVars>>

\* no date string is being converted
NormIdle ==
  /\ dateStr = "none"
  /\ dateOut = <<>>

\* sendWithRetries is not running
SendIdle ==
  /\ sendRetries = 0
  /\ sendDuration = 0
  /\ sendPc = "idle"
  /\ sendAttempt = 0
  /\ sendLog = <<>>
  /\ sendWaits = <<>>
  /\ sendResult = "pending"
  /\ sendError = 0

\* no list is being deduplicated
DedupIdle ==
  /\ dedupIn = <<>>
  /\ dedupOut = <<>>
  /\ dedupAgain = <<>>

\* getEvents / parseScrapedHTML is not running
GetIdle ==
  /\ gShared = FALSE
  /\ gPc = "idle"
  /\ gOuter = 0
  /\ gStep = 0
  /\ gInner = 0
  /\ gCount = 0
  /\ gOpen = FALSE
  /\ gErr = "none"
  /\ gResult = "pending"
  /\ gLeafCalls = 0

ExtraIdle == NormIdle /\ SendIdle /\ DedupIdle /\ GetIdle

\* callRagChain is not running
RagIdle ==
  /\ ragPc = "idle"
  /\ ragAttempts = 0
  /\ ragLog = <<>>
  /\ ragWaits = <<>>
  /\ ragReturn = "pending"
  /\ ragCalls = 0

\* no candidate is being matched
MatchOnlyIdle ==
  /\ mEvent = "none"
  /\ mResult = <<>>

\* no pair of names is being scored
ScoreIdle ==
  /\ nameA = <<>>
  /\ nameB = <<>>
  /\ scoreFwd = <<>>
  /\ scoreBwd = <<>>

MatchIdle == MatchOnlyIdle /\ ScoreIdle

\* the first revision's pipeline is not running
LegacyIdle ==
  /\ legPc = "idle"
  /\ legEvents = <<>>
  /\ legIdx = 0
  /\ legTxn = <<>>
  /\ legThrew = FALSE

----------------------------------------------------------------------------
\* Bounds of the model
MaxTime == 130000          \* the clock stops advancing here
CallCap == 4               \* saturation of the call counters

\* Amounts by which the clock advances between steps
TickSteps == {59999, 60000}

\* Errors the wrapped operation can raise
Errors == {"E1", "E2"}

Min(a, b) == IF a < b THEN a ELSE b

RECURSIVE Pow2(_)
Pow2(n) == IF n <= 0 THEN 1 ELSE 2 * Pow2(n - 1)

----------------------------------------------------------------------------
\* getDefaultRetryConfig: the immutable fields
DefaultRetryConfig ==
  [maxRetries |-> 3, retryDelay |-> 1000,
   circuitBreakerThreshold |-> 5, circuitBreakerTimeout |-> 60000]

\* The configurations a caller passes: the default one and one with threshold 3
Configs ==
  {DefaultRetryConfig,
   [DefaultRetryConfig EXCEPT !.circuitBreakerThreshold = 3]}

\* variant: the comparison of line 56 reversed
CircuitBlocks_Reversed(t, last, cfg) == t - last > cfg.circuitBreakerTimeout

\* line 56: now - config.lastFailureTime < config.circuitBreakerTimeout
CircuitBlocks(t, last, cfg) == t - last < cfg.circuitBreakerTimeout

\* variant: line 74 with > instead of >=
BreakerTrips_Strict(count, cfg) == count > cfg.circuitBreakerThreshold

\* line 74: config.failureCount >= config.circuitBreakerThreshold
BreakerTrips(count, cfg) == count >= cfg.circuitBreakerThreshold

\* line 82: config.retryDelay * Math.pow(2, attempt - 1)
BackoffDelay(cfg, k) == cfg.retryDelay * Pow2(k - 1)

\* variant: line 64 allows one attempt more
LoopContinues_OneMore(k, cfg) == k <= cfg.maxRetries + 1

\* variant: line 64 with < instead of <=
LoopContinues_OffByOne(k, cfg) == k < cfg.maxRetries

\* line 64: attempt <= config.maxRetries
LoopContinues(k, cfg) == k <= cfg.maxRetries

\* The longest time one call can spend in its backoff waits
CallBudget(cfg) == cfg.retryDelay * (Pow2(cfg.maxRetries) - 1)

Bump(n) == Min(n + 1, CallCap)

----------------------------------------------------------------------------
ExecInit ==
  /\ config \in Configs
  /\ failureCount = 0
  /\ lastFailureTime = 0
  /\ circuitOpen = FALSE
  /\ now = 0
  /\ pc = "idle"
  /\ attempt = 0
  /\ lastError = "none"
  /\ outcome = "none"
  /\ opCalls = 0
  /\ waited = <<>>
  /\ halfOpened = FALSE
  /\ failedCalls = 0
  /\ totalCalls = 0

\* Time passes (Date.now() grows) while the process is suspended or idle
Tick(d) ==
  /\ now + d + (IF pc = "idle" THEN 0 ELSE CallBudget(config)) <= MaxTime
  /\ now' = now + d
  /\ UNCHANGED <<config, failureCount, lastFailureTime, circuitOpen, pc,
                 attempt, lastError, outcome, opCalls, waited, halfOpened,
                 failedCalls, totalCalls>>
  /\ UNCHANGED <<storeVars, pipeVars, venueVars, auxVars>>

\* executeWithRetry, lines 54-58: the circuit is open and the timeout has not
\* elapsed: throw "Circuit breaker is open" without calling fn
ExecRejected ==
  /\ pc = "idle"
  /\ circuitOpen
  /\ CircuitBlocks(now, lastFailureTime, config)
  /\ outcome' = "CircuitIsOpen"
  /\ opCalls' = 0
  /\ waited' = <<>>
  /\ halfOpened' = FALSE
  /\ failedCalls' = Bump(failedCalls)
  /\ totalCalls' = Bump(totalCalls)
  /\ UNCHANGED <<config, failureCount, lastFailureTime, circuitOpen, now, pc,
                 attempt, lastError>>
  /\ UNCHANGED <<storeVars, pipeVars, venueVars, auxVars>>

\* variant: line 59 (circuitOpen = false) missing
ExecStart_StaysOpen ==
  /\ pc = "idle"
  /\ now + CallBudget(config) <= MaxTime
  /\ ~(circuitOpen /\ CircuitBlocks(now, lastFailureTime, config))
  /\ LoopContinues(1, config)
  /\ failureCount' = IF circuitOpen THEN 0 ELSE failureCount
  /\ halfOpened' = circuitOpen
  /\ attempt' = 1
  /\ lastError' = "none"
  /\ opCalls' = 1
  /\ waited' = <<>>
  /\ pc' = "running"
  /\ totalCalls' = Bump(totalCalls)
  /\ UNCHANGED <<config, circuitOpen, lastFailureTime, now, outcome,
                 failedCalls>>
  /\ UNCHANGED <<storeVars, pipeVars, venueVars, auxVars>>

\* variant: line 60 (failureCount = 0) missing
ExecStart_NoReset ==
  /\ pc = "idle"
  /\ now + CallBudget(config) <= MaxTime
  /\ ~(circuitOpen /\ CircuitBlocks(now, lastFailureTime, config))
  /\ LoopContinues(1, config)
  /\ circuitOpen' = FALSE
  /\ failureCount' = failureCount
  /\ halfOpened' = circuitOpen
  /\ attempt' = 1
  /\ lastError' = "none"
  /\ opCalls' = 1
  /\ waited' = <<>>
  /\ pc' = "running"
  /\ totalCalls' = Bump(totalCalls)
  /\ UNCHANGED <<config, lastFailureTime, now, outcome, failedCalls>>
  /\ UNCHANGED <<storeVars, pipeVars, venueVars, auxVars>>

\* executeWithRetry, lines 54-66: the breaker lets the call through (re-closing
\* an open circuit whose timeout has elapsed) and the loop calls fn() for
\* attempt 1
ExecStart ==
  /\ pc = "idle"
  /\ now + CallBudget(config) <= MaxTime
  /\ ~(circuitOpen /\ CircuitBlocks(now, lastFailureTime, config))
  /\ LoopContinues(1, config)
  /\ circuitOpen' = FALSE
  /\ failureCount' = IF circuitOpen THEN 0 ELSE failureCount
  /\ halfOpened' = circuitOpen
  /\ attempt' = 1
  /\ lastError' = "none"
  /\ opCalls' = 1
  /\ waited' = <<>>
  /\ pc' = "running"
  /\ totalCalls' = Bump(totalCalls)
  /\ UNCHANGED <<config, lastFailureTime, now, outcome, failedCalls>>
  /\ UNCHANGED <<storeVars, pipeVars, venueVars, auxVars>>

\* variant: line 67 (failureCount = 0) missing
AttemptSucceeds_NoReset ==
  /\ pc = "running"
  /\ outcome' = "ok"
  /\ failedCalls' = 0
  /\ pc' = "idle"
  /\ UNCHANGED <<config, failureCount, lastFailureTime, circuitOpen, now,
                 attempt, lastError, opCalls, waited, halfOpened, totalCalls>>
  /\ UNCHANGED <<storeVars, pipeVars, venueVars, auxVars>>

\* lines 66-68: fn() resolved
AttemptSucceeds ==
  /\ pc = "running"
  /\ failureCount' = 0
  /\ outcome' = "ok"
  /\ failedCalls' = 0
  /\ pc' = "idle"
  /\ UNCHANGED <<config, lastFailureTime, circuitOpen, now, attempt,
                 lastError, opCalls, waited, halfOpened, totalCalls>>
  /\ UNCHANGED <<storeVars, pipeVars, venueVars, auxVars>>

\* variant: line 79 (the throw after opening the circuit) missing
AttemptFails_KeepsRetrying(e) ==
  /\ pc = "running"
  /\ lastError' = e
  /\ failureCount' = failureCount + 1
  /\ lastFailureTime' = now
  /\ circuitOpen' = (circuitOpen \/ BreakerTrips(failureCount + 1, config))
  /\ waited' = Append(waited, BackoffDelay(config, attempt))
  /\ pc' = "waiting"
  /\ UNCHANGED <<config, now, attempt, opCalls, halfOpened, totalCalls,
                 outcome, failedCalls>>
  /\ UNCHANGED <<storeVars, pipeVars, venueVars, auxVars>>

\* lines 69-87: fn() rejected with error e
AttemptFails(e) ==
  /\ pc = "running"
  /\ lastError' = e
  /\ failureCount' = failureCount + 1
  /\ lastFailureTime' = now
  /\ IF BreakerTrips(failureCount + 1, config)
       THEN /\ circuitOpen' = TRUE
            /\ outcome' = "CircuitOpened"
            /\ failedCalls' = Bump(failedCalls)
            /\ pc' = "idle"
            /\ UNCHANGED waited
       ELSE /\ waited' = Append(waited, BackoffDelay(config, attempt))
            /\ pc' = "waiting"
            /\ UNCHANGED <<circuitOpen, outcome, failedCalls>>
  /\ UNCHANGED <<config, now, attempt, opCalls, halfOpened, totalCalls>>
  /\ UNCHANGED <<storeVars, pipeVars, venueVars, auxVars>>

\* line 87 resolves, then line 64 (attempt++ and the loop test), then either
\* line 66 (fn() is called again) or line 91 (throw lastError)
WaitEnds ==
  /\ pc = "waiting"
  /\ now' = now + waited[Len(waited)]
  /\ attempt' = attempt + 1
  /\ IF LoopContinues(attempt + 1, config)
       THEN /\ opCalls' = opCalls + 1
            /\ pc' = "running"
            /\ UNCHANGED <<outcome, failedCalls>>
       ELSE /\ outcome' = lastError
            /\ failedCalls' = Bump(failedCalls)
            /\ pc' = "idle"
            /\ UNCHANGED opCalls
  /\ UNCHANGED <<config, failureCount, lastFailureTime, circuitOpen,
                 lastError, waited, halfOpened, totalCalls>>
  /\ UNCHANGED <<storeVars, pipeVars, venueVars, auxVars>>

ExecNext ==
  \/ \E d \in TickSteps : Tick(d)
  \/ ExecRejected
  \/ ExecStart
  \/ AttemptSucceeds
  \/ \E e \in Errors : AttemptFails(e)
  \/ WaitEnds

----------------------------------------------------------------------------
\* The event store and DbService (src/services/ai.ts)

MaxCands == 2              \* longest candidate list of a run
MaxRuns == 2               \* runs of the pipeline per behaviour
MaxFaults == 1             \* transient store failures per behaviour

HourMs == 60 * 60 * 1000
DayMs == 24 * HourMs

\* Date.now() during the pipeline runs
PipeNow == 10 * DayMs

\* Instants used by the candidates
T1 == PipeNow + DayMs
T2 == T1 + 2 * HourMs
T3 == PipeNow + 2 * DayMs
TStale == PipeNow - 4 * DayMs
TRecent == PipeNow - 2 * DayMs

\* Strings are sequences of characters
LowerAlnum ==
  {"a", "b", "c", "d", "e", "f", "g", "h", "i", "j", "k", "l", "m", "n", "o",
   "p", "q", "r", "s", "t", "u", "v", "w", "x", "y", "z",
   "0", "1", "2", "3", "4", "5", "6", "7", "8", "9"}

\* String.prototype.toLowerCase, on one character
ToLowerChar(c) ==
  CASE c = "A" -> "a" [] c = "B" -> "b" [] c = "C" -> "c" [] c = "G" -> "g"
    [] c = "X" -> "x" [] OTHER -> c

ToLowerCase(str) == [i \in 1..Len(str) |-> ToLowerChar(str[i])]

IsLowerAlnum(c) == c \in LowerAlnum

\* DbService.normalizeArtistName: lower-case, drop every character outside
\* [a-z0-9] (the later \s+ removal and trim find nothing left to remove)
normalizeArtistName(name) == SelectSeq(ToLowerCase(name), IsLowerAlnum)

\* Prisma { contains: needle, mode: 'insensitive' }
ContainsInsensitive(hay, needle) ==
  LET h == ToLowerCase(hay)
      n == ToLowerCase(needle)
  IN \E i \in 0..(Len(h) - Len(n)) : SubSeq(h, i + 1, i + Len(n)) = n

Min3(a, b, c) == Min(a, Min(b, c))

\* DbService.levenshteinDistance: dp[i][j] of the table the code fills
RECURSIVE levenshteinCell(_, _, _, _)
levenshteinCell(str1, str2, i, j) ==
  IF j = 0 THEN i
  ELSE IF i = 0 THEN j
  ELSE IF str1[i] = str2[j] THEN levenshteinCell(str1, str2, i - 1, j - 1)
  ELSE Min3(levenshteinCell(str1, str2, i - 1, j - 1) + 1,
            levenshteinCell(str1, str2, i - 1, j) + 1,
            levenshteinCell(str1, str2, i, j - 1) + 1)

levenshteinDistance(str1, str2) ==
  levenshteinCell(str1, str2, Len(str1), Len(str2))

Max(a, b) == IF a > b THEN a ELSE b

\* variant: the distance is divided by the length of the first name
NameScore_ByFirstLength(normalizedName, other) ==
  LET o == normalizeArtistName(other)
  IN <<Len(normalizedName) - levenshteinDistance(normalizedName, o),
       Len(normalizedName)>>

\* One of the two scores of calculateSimilarityScore, 1 - distance / maxLen,
\* kept as the fraction <<maxLen - distance, maxLen>>; <<0, 0>> is NaN
NameScore(normalizedName, other) ==
  LET o == normalizeArtistName(other)
      m == Max(Len(normalizedName), Len(o))
  IN <<m - levenshteinDistance(normalizedName, o), m>>

IsNaN(sc) == sc[2] = 0

\* a < b on scores that are not NaN
ScoreLess(a, b) == a[1] * b[2] < b[1] * a[2]

\* DbService.calculateSimilarityScore: Math.max of the artist score and the
\* event-name score (NaN when either is NaN)
calculateSimilarityScore(normalizedName, artistName, eventName) ==
  LET a == NameScore(normalizedName, artistName)
      e == NameScore(normalizedName, eventName)
  IN IF IsNaN(a) \/ IsNaN(e) THEN <<0, 0>>
     ELSE IF ScoreLess(a, e) THEN e ELSE a

\* variant: the threshold itself counts as a match
ScoreAboveThreshold_Inclusive(sc) == ~IsNaN(sc) /\ 5 * sc[1] >= 4 * sc[2]

\* match.score > 0.8
ScoreAboveThreshold(sc) == ~IsNaN(sc) /\ 5 * sc[1] > 4 * sc[2]

\* ---- dates ----
\* An ISO date string of at least 24 characters, and text that is no date
IsoString(ms) == [iso |-> TRUE, ms |-> ms]
GarbageString == [iso |-> FALSE, ms |-> 0]
NoString == [iso |-> FALSE, ms |-> -1]       \* undefined

\* luxon DateTime values: instant, zone, validity
DateTimeIn(ms, zone) == [valid |-> TRUE, ms |-> ms, zone |-> zone]
InvalidDateTime == [valid |-> FALSE, ms |-> 0, zone |-> "America/Toronto"]

\* DbService.toTorontoTime: DateTime.fromISO(iso, {zone}).setZone(zone)
toTorontoTime(str) ==
  IF str.iso THEN DateTimeIn(str.ms, "America/Toronto") ELSE InvalidDateTime

\* DateTime.fromJSDate(date).toUTC()
fromJSDateToUTC(ms) == DateTimeIn(ms, "UTC")

\* luxon DateTime.equals: same instant, same zone, both valid
DateTimeEquals(a, b) ==
  a.valid /\ b.valid /\ a.ms = b.ms /\ a.zone = b.zone

\* ---- candidates ----
Cand(artist, eventName, startDate) ==
  [artist |-> artist, eventName |-> eventName, startDate |-> startDate,
   endDate |-> NoString, venueId |-> "v1"]

NameAbcde == <<"a", "b", "c", "d", "e">>
NameAbcdef == <<"a", "b", "c", "d", "e", "f">>
NameSpaced == <<"A", "b", " ", "c", "d", "e">>
NameXyz == <<"x", "y", "z">>
NameGala == <<"G", "a", "l", "a">>

\* The candidates the extraction step can deliver
Candidates ==
  {Cand(NameAbcde, <<>>, IsoString(T1)),
   Cand(NameAbcde, <<>>, IsoString(T2)),
   Cand(NameSpaced, <<>>, IsoString(T1)),
   Cand(NameXyz, <<>>, IsoString(T1)),
   Cand(<<>>, NameGala, IsoString(T3)),
   Cand(<<>>, NameGala, GarbageString),
   Cand(NameAbcde, <<>>, IsoString(TStale)),
   Cand(NameXyz, <<>>, IsoString(TRecent)),
   Cand(NameAbcde, <<>>, GarbageString)}

RECURSIVE ListsUpTo(_)
ListsUpTo(n) ==
  IF n = 0 THEN {<<>>}
  ELSE LET shorter == ListsUpTo(n - 1)
       IN shorter \cup {Append(l, c) : l \in shorter, c \in Candidates}

\* scrapedEventSchema.parse: artist min(1), startDate a string of >= 24
\* characters, venueId a string
SchemaAccepts(event) ==
  /\ Len(event.artist) >= 1
  /\ event.startDate # NoString

\* ---- store ----
VariousId == 1

EventRow(name, startMs, endMs, venueId, artistId, conflict) ==
  [name |-> name, startDate |-> startMs, endDate |-> endMs,
   venueId |-> venueId, artistId |-> artistId, conflict |-> conflict,
   conflictingEvents |-> {}, cancelled |-> FALSE]

\* The stores a run can find: a database that was never seeded, only the
\* seeded Various artist, or also an event of an earlier run
SeedStores ==
  {[events |-> <<>>, artists |-> <<>>],
   [events |-> <<>>, artists |-> <<<<"V", "a", "r", "i", "o", "u", "s">>>>],
   [events |-> <<EventRow(<<>>, T1, T1 + 2 * HourMs, "v1", 2, FALSE)>>,
    artists |-> <<<<"V", "a", "r", "i", "o", "u", "s">>, NameAbcdef>>]}

\* variant: the Event table has no unique index
SlotTaken_NoIndex(evts, row) == FALSE

\* variant: the unique index also covers artistId
SlotTaken_PerArtist(evts, row) ==
  \E i \in 1..Len(evts) :
    /\ evts[i].venueId = row.venueId
    /\ evts[i].startDate = row.startDate
    /\ evts[i].artistId = row.artistId

\* The Event table's unique index on (startDate, venueId)
SlotTaken(evts, row) ==
  \E i \in 1..Len(evts) :
    evts[i].venueId = row.venueId /\ evts[i].startDate = row.startDate

\* prisma.artist.findUnique({ where: { name } }): the id, or 0
FindArtist(arts, name) ==
  IF \E i \in 1..Len(arts) : arts[i] = name
    THEN CHOOSE i \in 1..Len(arts) : arts[i] = name
    ELSE 0

\* lines 476-484: the lookup of the Various artist finds it
VariousSeeded == FindArtist(artists, <<"V", "a", "r", "i", "o", "u", "s">>) # 0

\* variant: the artist is created without the lookup
maybeCreateArtist_NoLookup(arts, name) == Append(arts, name)

\* DbService.maybeCreateArtist: the Artist table afterwards
maybeCreateArtist(arts, name) ==
  IF FindArtist(arts, name) = 0 THEN Append(arts, name) ELSE arts

\* DbService.updateConflictingEvent: connects the event's conflictingEvents
\* relation to the event itself
updateConflictingEvent(evts, id) ==
  [evts EXCEPT ![id].conflictingEvents = @ \cup {id}]

\* variant: the window is open at both ends
PotentialMatches_Exclusive(evts, arts, scrapedEvent) ==
  LET eventStartDate == toTorontoTime(scrapedEvent.startDate)
      normalizedArtistName == normalizeArtistName(scrapedEvent.artist)
  IN {i \in 1..Len(evts) :
        /\ evts[i].startDate < eventStartDate.ms + 4 * HourMs
        /\ evts[i].startDate > eventStartDate.ms - 4 * HourMs
        /\ evts[i].venueId = scrapedEvent.venueId
        /\ \/ ContainsInsensitive(arts[evts[i].artistId], normalizedArtistName)
           \/ ContainsInsensitive(evts[i].name, normalizedArtistName)}

\* checkForDuplicatesAndConflicts: the findMany of lines 643-671
PotentialMatches(evts, arts, scrapedEvent) ==
  LET eventStartDate == toTorontoTime(scrapedEvent.startDate)
      normalizedArtistName == normalizeArtistName(scrapedEvent.artist)
  IN {i \in 1..Len(evts) :
        /\ evts[i].startDate <= eventStartDate.ms + 4 * HourMs
        /\ evts[i].startDate >= eventStartDate.ms - 4 * HourMs
        /\ evts[i].venueId = scrapedEvent.venueId
        /\ \/ ContainsInsensitive(arts[evts[i].artistId], normalizedArtistName)
           \/ ContainsInsensitive(evts[i].name, normalizedArtistName)}

MatchScore(evts, arts, scrapedEvent, i) ==
  calculateSimilarityScore(normalizeArtistName(scrapedEvent.artist),
                           arts[evts[i].artistId], evts[i].name)

\* the matches a find() over the list sorted by descending score can return:
\* the best-scored members of S (ties are in the order the store returned)
FirstOfSorted(evts, arts, scrapedEvent, S) ==
  {i \in S : \A j \in S :
     ~ScoreLess(MatchScore(evts, arts, scrapedEvent, i),
                MatchScore(evts, arts, scrapedEvent, j))}

\* lines 687-692: matches with score > 0.8 whose start equals the candidate's
ExactTimeMatches(evts, arts, scrapedEvent) ==
  {i \in PotentialMatches(evts, arts, scrapedEvent) :
     /\ DateTimeEquals(fromJSDateToUTC(evts[i].startDate),
                       toTorontoTime(scrapedEvent.startDate))
     /\ ScoreAboveThreshold(MatchScore(evts, arts, scrapedEvent, i))}

\* lines 695-700: matches with score > 0.8 whose start does not equal it
TimeConflicts(evts, arts, scrapedEvent) ==
  {i \in PotentialMatches(evts, arts, scrapedEvent) :
     /\ ~DateTimeEquals(fromJSDateToUTC(evts[i].startDate),
                        toTorontoTime(scrapedEvent.startDate))
     /\ ScoreAboveThreshold(MatchScore(evts, arts, scrapedEvent, i))}

\* The results checkForDuplicatesAndConflicts can return
checkForDuplicatesAndConflicts(evts, arts, scrapedEvent) ==
  LET tc == TimeConflicts(evts, arts, scrapedEvent)
      dup == ExactTimeMatches(evts, arts, scrapedEvent) # {}
  IN IF tc = {}
       THEN {[conflictEvent |-> 0, isDuplicate |-> dup]}
       ELSE {[conflictEvent |-> i, isDuplicate |-> dup] :
               i \in FirstOfSorted(evts, arts, scrapedEvent, tc)}

\* variant: rows are added at the front of transactionData
PushRow_Front(txn, row) == <<row>> \o txn

\* transactionData.push(row)
PushRow(txn, row) == Append(txn, row)

\* the row { ...event, artistId, conflict } pushed to transactionData
TxnRow(event, artistId, conflict) ==
  [artist |-> event.artist, eventName |-> event.eventName,
   startDate |-> event.startDate, endDate |-> event.endDate,
   venueId |-> event.venueId, artistId |-> artistId, conflict |-> conflict]

\* variant: the catch block logs and drops every candidate
CatchBlock_Drops(txn, event, isConflict) == txn

\* lines 543-557: the catch block of the loop body
CatchBlock(txn, event, isConflict) ==
  IF event.eventName # <<>> /\ event.artist = <<>>
    THEN PushRow(txn, TxnRow(event, VariousId, isConflict))
    ELSE txn

\* lines 489-506: the candidate fails before the first store call
ThrowsBeforeStore(event) ==
  \/ ~SchemaAccepts(event)
  \/ ~toTorontoTime(event.startDate).valid
  \/ event.endDate # NoString /\ ~toTorontoTime(event.endDate).valid

\* The store calls of the loop body that can fail
FaultPoints == {"none", "findMany", "update", "artist"}

\* what the pipeline made of a candidate
Classification(r) ==
  IF r.isDuplicate THEN "Duplicate"
  ELSE IF r.conflictEvent # 0 THEN "Conflict" ELSE "New"

PipeIdleInit ==
  /\ pipe = "idle"
  /\ scrapedEvents = <<>>
  /\ idx = 0
  /\ transactionData = <<>>
  /\ inflight = {}
  /\ txnResults = <<>>
  /\ threw = FALSE
  /\ runs = 0
  /\ faults = 0
  /\ classified = <<>>
  /\ rowOf = <<>>
  /\ createFailed = {}
  /\ returned = <<>>

PipeInit ==
  /\ \E st \in SeedStores : events = st.events /\ artists = st.artists
  /\ PipeIdleInit
  /\ eventsBefore = Len(events)
  /\ eventsPrevRun = Len(events)

\* processAndCreateEvents, lines 474-484: a run starts; the first run gets
\* any candidate list, a later run is given the list of the run before.
\* Without the Various artist the run throws at once (lines 482-484)
StartRun(list) ==
  /\ pipe = "idle"
  /\ runs < MaxRuns
  /\ runs > 0 => list = scrapedEvents
  /\ scrapedEvents' = list
  /\ transactionData' = <<>>
  /\ inflight' = {}
  /\ txnResults' = <<>>
  /\ classified' = <<>>
  /\ rowOf' = <<>>
  /\ createFailed' = {}
  /\ returned' = <<>>
  /\ eventsBefore' = Len(events)
  /\ eventsPrevRun' = eventsBefore
  /\ IF ~VariousSeeded
       THEN /\ threw' = TRUE
            /\ idx' = 0
            /\ runs' = runs + 1
            /\ pipe' = "idle"
       ELSE /\ threw' = FALSE
            /\ idx' = 1
            /\ runs' = runs
            /\ pipe' = "loop"
  /\ UNCHANGED <<events, artists, faults>>
  /\ UNCHANGED <<execVars, venueVars, auxVars>>

\* lines 486-558: the loop body for scrapedEvents[idx]
ProcessCandidate ==
  /\ pipe = "loop"
  /\ idx <= Len(scrapedEvents)
  /\ idx' = idx + 1
  /\ LET event == scrapedEvents[idx] IN
     IF ThrowsBeforeStore(event)
       THEN /\ transactionData' = CatchBlock(transactionData, event, FALSE)
            /\ classified' = Append(classified, [class |-> "Invalid", match |-> 0])
            /\ UNCHANGED <<events, artists, faults>>
       ELSE \E r \in checkForDuplicatesAndConflicts(events, artists, event),
               ft \in FaultPoints :
              /\ ft # "none" => faults < MaxFaults
              /\ faults' = IF ft = "none" THEN faults ELSE faults + 1
              /\ IF ft = "findMany"
                   THEN /\ transactionData' = CatchBlock(transactionData, event, FALSE)
                        /\ classified' = Append(classified, [class |-> "Failed", match |-> 0])
                        /\ UNCHANGED <<events, artists>>
                   ELSE /\ classified' = Append(classified,
                               [class |-> Classification(r), match |-> r.conflictEvent])
                        /\ IF r.isDuplicate
                             THEN /\ ft = "none"
                                  /\ UNCHANGED <<events, artists, transactionData>>
                             ELSE LET isConflict == r.conflictEvent # 0 IN
                                  /\ ft = "update" => isConflict
                                  /\ events' = IF isConflict /\ ft # "update"
                                                 THEN updateConflictingEvent(events, r.conflictEvent)
                                                 ELSE events
                                  /\ artists' = IF ft = "none"
                                                  THEN maybeCreateArtist(artists, event.artist)
                                                  ELSE artists
                                  /\ transactionData' =
                                       IF ft = "none"
                                         THEN PushRow(transactionData,
                                                TxnRow(event,
                                                       FindArtist(artists', event.artist),
                                                       isConflict))
                                         ELSE CatchBlock(transactionData, event, isConflict)
  /\ rowOf' = Append(rowOf, IF Len(transactionData') > Len(transactionData)
                              THEN Len(transactionData') ELSE 0)
  /\ UNCHANGED <<pipe, scrapedEvents, inflight, txnResults, threw, runs,
                 eventsBefore, eventsPrevRun, createFailed, returned>>
  /\ UNCHANGED <<execVars, venueVars, auxVars>>

\* variant: the comparison of line 581 is turned around
TooOld_Reversed(startDate, t) == startDate.valid /\ startDate.ms > t - 3 * DayMs

\* line 581: startDate < now.minus({ days: 3 })  (false for an invalid date)
TooOld(startDate, t) == startDate.valid /\ startDate.ms < t - 3 * DayMs

\* variant: a row whose start does not parse returns null like a stale one
IssueCreates_SkipsInvalid ==
  /\ pipe = "loop"
  /\ idx > Len(scrapedEvents)
  /\ inflight' = {k \in 1..Len(transactionData) :
                    /\ toTorontoTime(transactionData[k].startDate).valid
                    /\ ~TooOld(toTorontoTime(transactionData[k].startDate), PipeNow)}
  /\ txnResults' = [k \in 1..Len(transactionData) |-> 0]
  /\ pipe' = "persist"
  /\ UNCHANGED <<events, artists, scrapedEvents, idx, transactionData, threw,
                 runs, faults, classified, eventsBefore, eventsPrevRun,
                 rowOf, createFailed, returned>>
  /\ UNCHANGED <<execVars, venueVars, auxVars>>

\* lines 568-598: Promise.all(transactionData.map(...)): every callback runs
\* up to its first await: a stale row returns null, the others issue their
\* prisma.event.create
IssueCreates ==
  /\ pipe = "loop"
  /\ idx > Len(scrapedEvents)
  /\ inflight' = {k \in 1..Len(transactionData) :
                    ~TooOld(toTorontoTime(transactionData[k].startDate), PipeNow)}
  /\ txnResults' = [k \in 1..Len(transactionData) |-> 0]
  /\ pipe' = "persist"
  /\ UNCHANGED <<events, artists, scrapedEvents, idx, transactionData, threw,
                 runs, faults, classified, eventsBefore, eventsPrevRun,
                 rowOf, createFailed, returned>>
  /\ UNCHANGED <<execVars, venueVars, auxVars>>

\* variant: a row without end time ends when it starts
NewEventRow_NoDefault(data) ==
  LET startDate == toTorontoTime(data.startDate)
      endDate == IF data.endDate # NoString
                   THEN toTorontoTime(data.endDate).ms
                   ELSE startDate.ms
  IN EventRow(data.eventName, startDate.ms, endDate, data.venueId,
              data.artistId, data.conflict)

\* lines 575-598: the row prisma.event.create is given
NewEventRow(data) ==
  LET startDate == toTorontoTime(data.startDate)
      endDate == IF data.endDate # NoString
                   THEN toTorontoTime(data.endDate).ms
                   ELSE startDate.ms + 2 * HourMs
  IN EventRow(data.eventName, startDate.ms, endDate, data.venueId,
              data.artistId, data.conflict)

\* variant: a request error the store reports is rethrown as well
Rethrown_KnownToo(error) ==
  error \in {"PrismaClientValidationError", "PrismaClientKnownRequestError"}

\* lines 599-611: the catch of the create callback rethrows only a
\* PrismaClientValidationError; any other error is logged and becomes null
Rethrown(error) == error = "PrismaClientValidationError"

\* variant: the null results stay in the returned list
ReturnedEvents_Unfiltered(results) == results

\* line 617: txnResults.filter((result) => result !== null)
ReturnedEvents(results) ==
  LET NotNull(r) == r # 0 IN SelectSeq(results, NotNull)

\* variant: a rejected create abandons the creates still awaited
CreateSettles_Aborts(k) ==
  /\ pipe = "persist"
  /\ k \in inflight
  /\ inflight' = IF toTorontoTime(transactionData[k].startDate).valid
                   THEN inflight \ {k} ELSE {}
  /\ LET data == transactionData[k]
         row == NewEventRow(data)
     IN IF ~toTorontoTime(data.startDate).valid
          THEN \* Invalid Date: PrismaClientValidationError
               /\ threw' = (threw \/ Rethrown("PrismaClientValidationError"))
               /\ UNCHANGED <<events, txnResults, faults, createFailed>>
          ELSE IF SlotTaken(events, row)
          THEN \* unique index: PrismaClientKnownRequestError
               /\ threw' = (threw \/ Rethrown("PrismaClientKnownRequestError"))
               /\ UNCHANGED <<events, txnResults, faults, createFailed>>
          ELSE \E ok \in BOOLEAN :
               /\ ~ok => faults < MaxFaults
               /\ faults' = IF ok THEN faults ELSE faults + 1
               /\ events' = IF ok THEN Append(events, row) ELSE events
               /\ txnResults' = IF ok THEN [txnResults EXCEPT ![k] = Len(events) + 1]
                                      ELSE txnResults
               /\ createFailed' = IF ok THEN createFailed ELSE createFailed \cup {k}
               /\ threw' = (threw \/ (~ok /\ Rethrown("Error")))
  /\ UNCHANGED <<artists, pipe, scrapedEvents, idx, transactionData, runs,
                 classified, eventsBefore, eventsPrevRun, rowOf, returned>>
  /\ UNCHANGED <<execVars, venueVars, auxVars>>

\* variant: a create that failed transiently stays awaited and is tried again
CreateSettles_Retries(k) ==
  /\ pipe = "persist"
  /\ k \in inflight
  /\ LET data == transactionData[k]
         row == NewEventRow(data)
     IN IF ~toTorontoTime(data.startDate).valid
          THEN \* Invalid Date: PrismaClientValidationError
               /\ threw' = (threw \/ Rethrown("PrismaClientValidationError"))
               /\ UNCHANGED <<events, txnResults, faults, createFailed>>
          ELSE IF SlotTaken(events, row)
          THEN \* unique index: PrismaClientKnownRequestError
               /\ threw' = (threw \/ Rethrown("PrismaClientKnownRequestError"))
               /\ UNCHANGED <<events, txnResults, faults, createFailed>>
          ELSE \E ok \in BOOLEAN :
               /\ ~ok => faults < MaxFaults
               /\ faults' = IF ok THEN faults ELSE faults + 1
               /\ events' = IF ok THEN Append(events, row) ELSE events
               /\ txnResults' = IF ok THEN [txnResults EXCEPT ![k] = Len(events) + 1]
                                      ELSE txnResults
               /\ createFailed' = IF ok THEN createFailed ELSE createFailed \cup {k}
               /\ threw' = (threw \/ (~ok /\ Rethrown("Error")))
  /\ UNCHANGED <<artists, pipe, scrapedEvents, idx, transactionData, runs,
                 classified, eventsBefore, eventsPrevRun, rowOf, returned>>
  /\ inflight' = IF faults' > faults THEN inflight ELSE inflight \ {k}
  /\ UNCHANGED <<execVars, venueVars, auxVars>>

\* lines 588-611: one awaited prisma.event.create settles
CreateSettles(k) ==
  /\ pipe = "persist"
  /\ k \in inflight
  /\ inflight' = inflight \ {k}
  /\ LET data == transactionData[k]
         row == NewEventRow(data)
     IN IF ~toTorontoTime(data.startDate).valid
          THEN \* Invalid Date: PrismaClientValidationError
               /\ threw' = (threw \/ Rethrown("PrismaClientValidationError"))
               /\ UNCHANGED <<events, txnResults, faults, createFailed>>
          ELSE IF SlotTaken(events, row)
          THEN \* unique index: PrismaClientKnownRequestError
               /\ threw' = (threw \/ Rethrown("PrismaClientKnownRequestError"))
               /\ UNCHANGED <<events, txnResults, faults, createFailed>>
          ELSE \E ok \in BOOLEAN :
               /\ ~ok => faults < MaxFaults
               /\ faults' = IF ok THEN faults ELSE faults + 1
               /\ events' = IF ok THEN Append(events, row) ELSE events
               /\ txnResults' = IF ok THEN [txnResults EXCEPT ![k] = Len(events) + 1]
                                      ELSE txnResults
               /\ createFailed' = IF ok THEN createFailed ELSE createFailed \cup {k}
               /\ threw' = (threw \/ (~ok /\ Rethrown("Error")))
  /\ UNCHANGED <<artists, pipe, scrapedEvents, idx, transactionData, runs,
                 classified, eventsBefore, eventsPrevRun, rowOf, returned>>
  /\ UNCHANGED <<execVars, venueVars, auxVars>>

\* lines 614-617: every callback has settled; the run returns or rejects
FinishRun ==
  /\ pipe = "persist"
  /\ inflight = {}
  /\ pipe' = "idle"
  /\ runs' = runs + 1
  /\ returned' = IF threw THEN <<>> ELSE ReturnedEvents(txnResults)
  /\ UNCHANGED <<events, artists, scrapedEvents, idx, transactionData,
                 inflight, txnResults, threw, faults, classified,
                 eventsBefore, eventsPrevRun, rowOf, createFailed>>
  /\ UNCHANGED <<execVars, venueVars, auxVars>>

\* every candidate list of at most MaxCands candidates
AllLists == ListsUpTo(MaxCands)

\* the lists a call of processAndCreateEvents can be given in this state
RunInputs ==
  IF pipe # "idle" THEN {}
  ELSE IF runs = 0 THEN AllLists ELSE {scrapedEvents}

PipeNext ==
  \/ \E list \in RunInputs : StartRun(list)
  \/ ProcessCandidate
  \/ \E k \in 1..MaxCands : CreateSettles(k)
  \/ IssueCreates
  \/ FinishRun

----------------------------------------------------------------------------
\* The venue loop of index.ts

MaxVenues == 2             \* most crawlable venues in the store

VenueIds == <<"v1", "v2", "v3">>

\* AI_PROVIDER_NAMES
Providers == <<"OPENAI", "ANTHROPIC", "GOOGLE">>

\* How the executeWithRetry calls of the extraction step can end: with
\* candidates, with none, with the last error of a call whose retries were
\* used up, or with the error of an open circuit
ExtractOutcomes == {"events", "empty", "failed", "circuitOpen"}

\* variant: the extraction step lets the error of its retried calls escape
parseScrapedHTML_Rethrows(o) ==
  IF o \in {"failed", "circuitOpen"} THEN "throws" ELSE o

\* AiService.parseScrapedHTML / Scraper.getEvents: every error of the retried
\* calls is caught, logged and answered with []
parseScrapedHTML(o) ==
  IF o \in {"failed", "circuitOpen"} THEN "empty" ELSE o

\* How db.processAndCreateEvents(events) can end for such a list: it throws
\* without the Various artist; an empty list creates nothing; a list with
\* candidates returns created events, returns [] or throws on invalid data
ReconcileOutcomes(list) ==
  IF ~VariousSeeded THEN {"throws"}
  ELSE IF list = "empty" THEN {"empty"}
  ELSE {"events", "empty", "throws"}

VenueIdle ==
  /\ multiProvider = FALSE
  /\ venues = <<>>
  /\ vpc = "done"
  /\ vIdx = 1
  /\ provIdx = 1
  /\ attempts = <<>>
  /\ extracted = "none"
  /\ lastExtract = "none"
  /\ venueLog = <<>>
  /\ pausedSince = FALSE

\* main: db.getVenues() has returned the crawlable venues
VenueInit ==
  /\ multiProvider \in BOOLEAN
  /\ \E n \in 0..MaxVenues : venues = SubSeq(VenueIds, 1, n)
  /\ vpc = "next"
  /\ vIdx = 1
  /\ provIdx = 1
  /\ attempts = [v \in 1..Len(venues) |-> 0]
  /\ extracted = "none"
  /\ lastExtract = "none"
  /\ venueLog = <<>>
  /\ pausedSince = FALSE

\* An error reaches the body of the venue loop: scrapeAndProcess catches it,
\* logs and continues with the next venue; scrapeAndProcessAllProviders has
\* no try/catch, the rejection ends the loop
VenueFails ==
  /\ venueLog' = Append(venueLog, [venue |-> vIdx, result |-> "error",
                                   circuit |-> lastExtract' = "circuitOpen"])
  /\ IF multiProvider
       THEN vpc' = "crashed" /\ vIdx' = vIdx
       ELSE vpc' = "next" /\ vIdx' = vIdx + 1

\* the for loop takes the next venue
VenueBegin ==
  /\ vpc = "next"
  /\ vIdx <= Len(venues)
  /\ attempts' = [attempts EXCEPT ![vIdx] = @ + 1]
  /\ provIdx' = 1
  /\ extracted' = "none"
  /\ lastExtract' = "none"
  /\ pausedSince' = FALSE
  /\ vpc' = "fetch"
  /\ UNCHANGED <<multiProvider, venues, vIdx, venueLog>>
  /\ UNCHANGED <<execVars, storeVars, pipeVars, auxVars>>

\* db.getEventsThisMonthByVenue(venue) and the page load, outside the
\* extraction step's own try/catch
FetchPage(ok) ==
  /\ vpc = "fetch"
  /\ lastExtract' = lastExtract
  /\ IF ok THEN /\ vpc' = "extract"
                /\ UNCHANGED <<vIdx, venueLog>>
           ELSE VenueFails
  /\ UNCHANGED <<multiProvider, venues, provIdx, attempts, extracted, pausedSince>>
  /\ UNCHANGED <<execVars, storeVars, pipeVars, auxVars>>

\* aiService.parseScrapedHTML(docs) / scraper.getEvents()
Extract(o) ==
  /\ vpc = "extract"
  /\ lastExtract' = o
  /\ IF parseScrapedHTML(o) = "throws"
       THEN /\ VenueFails
            /\ UNCHANGED extracted
       ELSE /\ extracted' = parseScrapedHTML(o)
            /\ vpc' = "reconcile"
            /\ UNCHANGED <<vIdx, venueLog>>
  /\ UNCHANGED <<multiProvider, venues, provIdx, attempts, pausedSince>>
  /\ UNCHANGED <<execVars, storeVars, pipeVars, auxVars>>

\* db.processAndCreateEvents(events) and what follows it up to the wait
Reconcile(r) ==
  /\ vpc = "reconcile"
  /\ r \in ReconcileOutcomes(extracted)
  /\ lastExtract' = lastExtract
  /\ IF r = "throws"
       THEN VenueFails
       ELSE /\ venueLog' = Append(venueLog, [venue |-> vIdx, result |-> r,
                                             circuit |-> lastExtract = "circuitOpen"])
            /\ vpc' = "pause"
            /\ UNCHANGED vIdx
  /\ UNCHANGED <<multiProvider, venues, provIdx, attempts, extracted, pausedSince>>
  /\ UNCHANGED <<execVars, storeVars, pipeVars, auxVars>>

\* await wait(...) is over: the next provider, or the next venue
PauseEnds ==
  /\ vpc = "pause"
  /\ pausedSince' = TRUE
  /\ IF multiProvider /\ provIdx < Len(Providers)
       THEN /\ provIdx' = provIdx + 1
            /\ vpc' = "extract"
            /\ UNCHANGED vIdx
       ELSE /\ vIdx' = vIdx + 1
            /\ vpc' = "next"
            /\ UNCHANGED provIdx
  /\ UNCHANGED <<multiProvider, venues, attempts, extracted, lastExtract, venueLog>>
  /\ UNCHANGED <<execVars, storeVars, pipeVars, auxVars>>

\* the loop is through: process.exit
LoopEnds ==
  /\ vpc = "next"
  /\ vIdx > Len(venues)
  /\ vpc' = "done"
  /\ UNCHANGED <<multiProvider, venues, vIdx, provIdx, attempts, extracted,
                 lastExtract, venueLog, pausedSince>>
  /\ UNCHANGED <<execVars, storeVars, pipeVars, auxVars>>

VenueNext ==
  \/ VenueBegin
  \/ \E ok \in BOOLEAN : FetchPage(ok)
  \/ \E o \in ExtractOutcomes : Extract(o)
  \/ \E r \in {"events", "empty", "throws"} : Reconcile(r)
  \/ PauseEnds
  \/ LoopEnds

\* Specification of the retry wrapper
Init ==
  /\ ExecInit
  /\ events = <<>> /\ artists = <<>>
  /\ PipeIdleInit
  /\ eventsBefore = 0 /\ eventsPrevRun = 0
  /\ VenueIdle
  /\ ExtraIdle
  /\ RagIdle /\ MatchIdle /\ LegacyIdle
Next == ExecNext
Spec == Init /\ [][Next]_vars

\* Specification of the ingestion pipeline over the store
PipeSpecInit ==
  /\ ExecInit
  /\ config = DefaultRetryConfig
  /\ PipeInit
  /\ VenueIdle
  /\ ExtraIdle
  /\ RagIdle /\ MatchIdle /\ LegacyIdle
PipeSpecNext == PipeNext
PipeSpec == PipeSpecInit /\ [][PipeSpecNext]_vars

\* Specification of the venue loop; the store is seeded or not
VenueSpecInit ==
  /\ ExecInit
  /\ config = DefaultRetryConfig
  /\ events = <<>>
  /\ artists \in {<<>>, <<<<"V", "a", "r", "i", "o", "u", "s">>>>}
  /\ PipeIdleInit
  /\ eventsBefore = 0 /\ eventsPrevRun = 0
  /\ VenueInit
  /\ ExtraIdle
  /\ RagIdle /\ MatchIdle /\ LegacyIdle
VenueSpecNext == VenueNext
VenueSpec == VenueSpecInit /\ [][VenueSpecNext]_vars

----------------------------------------------------------------------------
\* Steps of a call, as seen from outside

\* a call to executeWithRetry arrives (the clock does not move in that step)
CallArrives == pc = "idle" /\ now' = now /\ execVars' # execVars

\* an attempt of fn() ends with a rejection
FailedAttempt ==
  /\ pc = "running"
  /\ \/ pc' = "waiting"
     \/ pc' = "idle" /\ outcome' = "CircuitOpened"

\* an attempt of fn() ends with a result
SuccessfulAttempt == pc = "running" /\ pc' = "idle" /\ outcome' = "ok"

\* C1: a call made while the circuit is open and less than
\* circuitBreakerTimeout after the last failure fails at once with the
\* circuit-open error: fn is not invoked and failureCount, lastFailureTime
\* and circuitOpen keep their values.
C1_OpenFailsFast ==
  [][(CallArrives /\ circuitOpen
        /\ now - lastFailureTime < config.circuitBreakerTimeout)
       => /\ pc' = "idle"
          /\ outcome' = "CircuitIsOpen"
          /\ opCalls' = 0
          /\ failureCount' = failureCount
          /\ lastFailureTime' = lastFailureTime
          /\ circuitOpen' = circuitOpen]_vars

C1_Witness ==
  /\ pc = "idle" /\ outcome = "CircuitIsOpen" /\ circuitOpen
  /\ opCalls = 0
  /\ now - lastFailureTime = config.circuitBreakerTimeout - 1

\* C2: with circuitBreakerThreshold = 3 (the other fields at their defaults),
\* after three consecutive failing calls the circuit is open; a call that
\* arrives before the timeout has elapsed fails without invoking fn; a call
\* that arrives once the timeout has elapsed invokes fn again.
C2_ThresholdThree ==
  /\ [](config.circuitBreakerThreshold = 3
          /\ pc = "idle" /\ totalCalls = 3 /\ failedCalls = 3
        => circuitOpen)
  /\ [][(config.circuitBreakerThreshold = 3 /\ CallArrives /\ circuitOpen)
         => IF now - lastFailureTime < config.circuitBreakerTimeout
              THEN pc' = "idle" /\ opCalls' = 0 /\ outcome' = "CircuitIsOpen"
              ELSE pc' = "running" /\ opCalls' = 1]_vars

C2_Witness ==
  /\ config.circuitBreakerThreshold = 3
  /\ failedCalls >= 3
  /\ outcome = "CircuitIsOpen"
  /\ pc = "running" /\ halfOpened /\ opCalls = 1

\* C3: the circuit is closed whenever fn runs; a successful attempt sets
\* failureCount to 0; a failed attempt adds exactly one to failureCount and
\* stores the time of the failure in lastFailureTime.
C3_CounterUpdates ==
  /\ [](pc = "running" => ~circuitOpen)
  /\ [][/\ SuccessfulAttempt => failureCount' = 0
        /\ FailedAttempt => /\ failureCount' = failureCount + 1
                            /\ lastFailureTime' = now]_vars

C3_Witness ==
  /\ pc = "idle" /\ outcome = "ok" /\ failureCount = 0
  /\ Len(waited) = 2 /\ lastFailureTime > 0

\* C4: a call that arrives while the circuit is open and at least
\* circuitBreakerTimeout after the last failure sets failureCount to 0 and
\* closes the circuit before fn is attempted, and then has all maxRetries
\* attempts available (it is not limited to one probe).
C4_HalfOpenResets ==
  /\ [][(CallArrives /\ circuitOpen
           /\ now - lastFailureTime >= config.circuitBreakerTimeout)
         => /\ failureCount' = 0
            /\ circuitOpen' = FALSE
            /\ halfOpened'
            /\ pc' = "running" /\ attempt' = 1 /\ opCalls' = 1]_vars
  /\ [](halfOpened /\ pc = "idle" /\ outcome # "ok"
        => opCalls = config.maxRetries)
  /\ [](halfOpened /\ pc # "idle" => failureCount = attempt - (IF pc = "running" THEN 1 ELSE 0))

C4_Witness ==
  /\ halfOpened /\ pc = "running" /\ attempt = config.maxRetries
  /\ failureCount = config.maxRetries - 1 /\ ~circuitOpen

\* C5 (as claimed): while the counter stays below the threshold, failed
\* attempt k is followed by a wait of retryDelay * 2^(k-1) exactly when
\* k < maxRetries, and after failed attempt k = maxRetries the error is thrown
\* without a wait.
C5_WaitOnlyBeforeRetry ==
  [][(FailedAttempt /\ failureCount + 1 < config.circuitBreakerThreshold)
      => /\ (pc' = "waiting") <=> (attempt < config.maxRetries)
         /\ pc' = "waiting"
              => waited' = Append(waited, config.retryDelay * Pow2(attempt - 1))
         /\ attempt = config.maxRetries
              => pc' = "idle" /\ outcome' = lastError']_vars

\* C6 (as claimed): a failed attempt that brings failureCount to the threshold
\* before the last attempt is still followed by its backoff wait and by the
\* remaining retries.
C6_KeepsRetryingAtThreshold ==
  [][(FailedAttempt
        /\ failureCount + 1 >= config.circuitBreakerThreshold
        /\ attempt < config.maxRetries)
      => pc' = "waiting"]_vars

\* C6 (amended): the breaker is consulted at the start of a call and after
\* every failed attempt: a failed attempt that brings failureCount to the
\* threshold opens the circuit and ends the call at once with the
\* "Circuit breaker opened" error, without a backoff wait and without a
\* further attempt.
C6_StopsAtThreshold ==
  [][(FailedAttempt /\ failureCount + 1 >= config.circuitBreakerThreshold)
      => /\ pc' = "idle"
         /\ circuitOpen'
         /\ outcome' = "CircuitOpened"
         /\ waited' = waited
         /\ opCalls' = opCalls]_vars

C6_Witness ==
  /\ pc = "idle" /\ outcome = "CircuitOpened" /\ circuitOpen
  /\ opCalls < config.maxRetries
  /\ Len(waited) = opCalls - 1

\* C7 (as claimed): a call whose attempts all failed delivers the error of its
\* last attempt, and the circuit is open afterwards if the counter is at the
\* threshold.
C7_LastErrorSurfaced ==
  (pc = "idle" /\ outcome \notin {"none", "ok", "CircuitIsOpen"})
    => /\ outcome = lastError
       /\ failureCount >= config.circuitBreakerThreshold => circuitOpen

\* C7 (amended): a call whose attempts all failed delivers the error of its
\* last attempt when failureCount stayed below the threshold (after
\* maxRetries attempts); when a failed attempt brought failureCount to the
\* threshold it delivers a new "Circuit breaker opened" error instead of the
\* operation's error, and the circuit is open for the next call.
C7_LastErrorOrOpened ==
  (pc = "idle" /\ outcome \notin {"none", "ok", "CircuitIsOpen"})
    => /\ lastError \in Errors
       /\ IF failureCount >= config.circuitBreakerThreshold
            THEN outcome = "CircuitOpened" /\ circuitOpen
            ELSE /\ outcome = lastError
                 /\ opCalls = config.maxRetries
                 /\ ~circuitOpen

C7_Witness ==
  /\ pc = "idle" /\ outcome = "E2" /\ lastError = "E2"
  /\ opCalls = config.maxRetries /\ failureCount = config.maxRetries

----------------------------------------------------------------------------
\* Claims about the ingestion pipeline (PipeSpec)

RunOver == pipe = "idle" /\ runs >= 1

\* the events the last run created for the candidate c
CreatedFor(c) ==
  {i \in (eventsBefore + 1)..Len(events) :
     /\ events[i].venueId = c.venueId
     /\ events[i].startDate = c.startDate.ms
     /\ events[i].name = c.eventName
     /\ artists[events[i].artistId] =
          (IF c.artist = <<>> THEN artists[VariousId] ELSE c.artist)}

\* C8: when no store call fails transiently, a second run with the identical
\* candidate list on the store left by the first run creates no event: the
\* Event table has the same size after it as before it and the run returns
\* no created event.
C8_RerunCreatesNothing ==
  (RunOver /\ runs >= 2 /\ faults = 0)
    => /\ Len(events) = eventsBefore
       /\ \A k \in 1..Len(txnResults) : txnResults[k] = 0

C8_Witness ==
  /\ RunOver /\ runs = 2 /\ faults = 0
  /\ Len(scrapedEvents) = 2
  /\ eventsBefore = eventsPrevRun + 2
  /\ Len(transactionData) = 2

\* C9: the Event table never holds two rows with the same venueId and
\* startDate, also while the creates of one run are settling concurrently.
C9_OneEventPerSlot ==
  \A i, j \in 1..Len(events) :
    (i # j) => ~(events[i].venueId = events[j].venueId
                 /\ events[i].startDate = events[j].startDate)

C9_Witness ==
  /\ RunOver /\ faults = 0
  /\ \E a, b \in 1..Len(transactionData) :
       /\ a # b
       /\ transactionData[a].startDate = transactionData[b].startDate
       /\ transactionData[a].venueId = transactionData[b].venueId
       /\ transactionData[a].artist # transactionData[b].artist
       /\ txnResults[a] # 0
       /\ txnResults[b] = 0

\* C10 (as claimed): after a run without store failures, for every candidate
\* classified Conflict against an existing event with a different start, that
\* event has conflict = TRUE and the run has created the candidate as an
\* event with conflict = TRUE.
C10_ConflictFlagsBoth ==
  (RunOver /\ faults = 0 /\ ~threw)
    => \A k \in 1..Len(classified) :
         (/\ classified[k].class = "Conflict"
          /\ events[classified[k].match].startDate # scrapedEvents[k].startDate.ms)
           => /\ events[classified[k].match].conflict
              /\ \E i \in CreatedFor(scrapedEvents[k]) : events[i].conflict

\* The matches that make a candidate a duplicate: stored events of the venue
\* inside the window with a score above the threshold and the candidate's
\* own start instant
SameInstantMatches(evts, arts, scrapedEvent) ==
  {i \in PotentialMatches(evts, arts, scrapedEvent) :
     /\ evts[i].startDate = toTorontoTime(scrapedEvent.startDate).ms
     /\ ScoreAboveThreshold(MatchScore(evts, arts, scrapedEvent, i))}

\* the loop body handles a candidate that has such a match
HandlesDuplicate ==
  /\ pipe = "loop"
  /\ idx <= Len(scrapedEvents)
  /\ idx' = idx + 1
  /\ ~ThrowsBeforeStore(scrapedEvents[idx])
  /\ SameInstantMatches(events, artists, scrapedEvents[idx]) # {}

\* C11: a candidate that duplicates a stored event (same venue, same start
\* instant, similarity above the threshold) is skipped and leaves the store
\* as it was: no row is queued for creation, no artist is created and no
\* stored event is touched.
C11_DuplicateLeavesStore ==
  [][HandlesDuplicate =>
       /\ transactionData' = transactionData
       /\ artists' = artists
       /\ events' = events]_vars

\* the row queued for candidate c is one the store can accept: a valid start
\* that is not stale
RowAcceptable(c) ==
  /\ rowOf[c] # 0
  /\ toTorontoTime(transactionData[rowOf[c]].startDate).valid
  /\ ~TooOld(toTorontoTime(transactionData[rowOf[c]].startDate), PipeNow)

InvalidRowQueued ==
  \E k \in 1..Len(transactionData) :
    ~toTorontoTime(transactionData[k].startDate).valid

StoredAt(t) ==
  \E i \in 1..Len(events) : events[i].startDate = t /\ events[i].venueId = "v1"

\* C14: no event that starts earlier than now minus 3 days is ever persisted,
\* whatever its candidate was classified as; and when a run without failing
\* store calls is over, every valid candidate starting at now minus 2 days
\* has its event in the store.
C14_StaleNeverRecentAlways ==
  /\ \A i \in 1..Len(events) : events[i].startDate >= PipeNow - 3 * DayMs
  /\ (RunOver /\ VariousSeeded /\ faults = 0) =>
       \A c \in 1..Len(scrapedEvents) :
         (/\ ~ThrowsBeforeStore(scrapedEvents[c])
          /\ toTorontoTime(scrapedEvents[c].startDate).ms = TRecent)
           => StoredAt(TRecent)

\* a run whose list held a candidate of four days ago, queued but not
\* created, and one of two days ago, created
C14_Witness ==
  /\ RunOver
  /\ StoredAt(TRecent)
  /\ \E c \in 1..Len(rowOf) :
       /\ rowOf[c] # 0
       /\ toTorontoTime(scrapedEvents[c].startDate).ms = TStale
       /\ txnResults[rowOf[c]] = 0

\* C15: artist creation is idempotent: in every state the Artist table holds
\* at most one artist per exact name.
C15_OneArtistPerName ==
  \A i, j \in 1..Len(artists) : (i # j) => artists[i] # artists[j]

\* a finished run in which two candidates of the same artist, one the store
\* did not know before, were both queued with the same artist id
C15_Witness ==
  /\ RunOver
  /\ \E c, d \in 1..Len(rowOf) :
       /\ c < d
       /\ scrapedEvents[c].artist = NameAbcde
       /\ scrapedEvents[d].artist = NameAbcde
       /\ rowOf[c] # 0 /\ rowOf[d] # 0
       /\ transactionData[rowOf[c]].artistId = FindArtist(artists, NameAbcde)
       /\ transactionData[rowOf[d]].artistId = FindArtist(artists, NameAbcde)

\* candidate c was queued and its create, a store write, is still to be issued
CreateStillToCome(c) ==
  /\ rowOf[c] # 0
  /\ ~TooOld(toTorontoTime(transactionData[rowOf[c]].startDate), PipeNow)

LoopOver == vpc \in {"done", "crashed"}

\* C17: an error raised while processing one venue never prevents the
\* following venues from being processed: when the loop is over, every
\* crawlable venue the store returned has been attempted exactly once.
C17_EveryVenueOnce ==
  /\ \A v \in 1..Len(venues) : attempts[v] <= 1
  /\ LoopOver => \A v \in 1..Len(venues) : attempts[v] = 1

\* the for loop starts on a venue that is not the first
NextVenueBegins == vpc = "next" /\ vpc' = "fetch" /\ vIdx >= 2

\* C18: between the processing of any two consecutive venues a pause occurs,
\* also when the processing of the earlier venue ended with an error.
C18_PauseBetweenVenues == [][NextVenueBegins => pausedSince]_vars

\* the passes over venue v that the loop has finished
PassesOf(v) == {k \in 1..Len(venueLog) : venueLog[k].venue = v}

\* C19 (as claimed): when the circuit is open during a venue's processing,
\* the failure reaches the venue loop as an error for that venue instead of
\* being turned into an ordinary empty result.
C19_CircuitOpenSurfaces ==
  \A k \in 1..Len(venueLog) :
    venueLog[k].circuit => venueLog[k].result = "error"

\* C19 (amended): an open circuit during a venue's extraction is caught by
\* the extraction step and answered with an empty candidate list; with the
\* Various artist in the store the pass over the venue then ends as an
\* ordinary empty result, and the venue after it is still attempted.
C19_CircuitOpenBecomesEmpty ==
  /\ (vpc = "reconcile" /\ lastExtract = "circuitOpen") => extracted = "empty"
  /\ VariousSeeded =>
       \A k \in 1..Len(venueLog) :
         venueLog[k].circuit => venueLog[k].result = "empty"
  /\ (LoopOver /\ VariousSeeded) =>
       \A v \in 1..(Len(venues) - 1) :
         (/\ \E k \in PassesOf(v) : venueLog[k].circuit
          /\ \A k \in PassesOf(v) : venueLog[k].result # "error")
           => attempts[v + 1] = 1

\* the first venue met an open circuit, ended with an empty result, and the
\* second venue was attempted after it
C19_Witness ==
  /\ LoopOver
  /\ Len(venues) >= 2
  /\ attempts[2] = 1
  /\ \E k \in PassesOf(1) : venueLog[k].circuit /\ venueLog[k].result = "empty"

\* a store call made for a candidate fails in this step
StoreCallFails == faults' = faults + 1

\* C20 (as claimed): a transient failure of a store call made for a candidate
\* is retried: after the failure the loop is still at that candidate, which
\* is only given up when the retries are used up.
C20_StoreCallsRetried ==
  [][(StoreCallFails /\ pipe = "loop") => idx' = idx]_vars

\* C20 (amended): no store call of the pipeline goes through the retry
\* wrapper: a failing store call leaves the breaker state alone and is not
\* tried again; in that very step the loop moves on to the next candidate
\* without queueing the failed one, or the failed create settles without an
\* event, and nothing else of the run is given up.
C20_StoreFailureSkipsAtOnce ==
  [][StoreCallFails =>
       /\ UNCHANGED execVars
       /\ \/ /\ pipe = "loop"
             /\ idx' = idx + 1
             /\ rowOf'[idx] = 0
             /\ transactionData' = transactionData
          \/ /\ pipe = "persist"
             /\ \E k \in inflight :
                  /\ inflight' = inflight \ {k}
                  /\ txnResults'[k] = 0
             /\ Len(events') = Len(events)
             /\ UNCHANGED <<transactionData, idx>>]_vars

\* a finished run in which a store call failed for one candidate, which was
\* dropped, and another candidate's event was created
C20_Witness ==
  /\ RunOver
  /\ faults >= 1
  /\ \E c, d \in 1..Len(rowOf) :
       /\ classified[c].class = "Failed"
       /\ rowOf[c] = 0
       /\ rowOf[d] # 0
       /\ txnResults[rowOf[d]] > 0

----------------------------------------------------------------------------
\* AiService.callRagChain (ai.ts 101-164); Scraper.callRagChain
\* (scraper/index.ts 484-538) is the same loop

MaxRagCalls == 2           \* most calls of callRagChain

\* const maxRetries = 3
RagMaxRetries == 3

\* How one ragChain.invoke can end: a result the schema accepts, a result it
\* rejects, a SyntaxError from parsing the model's answer, any other error
RagOutcomes == {"valid", "invalid", "syntax", "error"}

\* variant: the first failure is the last
RagGivesUp_AtOnce(n) == n >= 1

\* if (attempts === maxRetries)
RagGivesUp(n) == n = RagMaxRetries

\* variant: the same wait before every retry
RagDelay_Flat(n) == 1000

\* setTimeout(resolve, 1000 * attempts)
RagDelay(n) == 1000 * n

RagInit == RagIdle

\* callRagChain is called: attempts = 0
RagStart ==
  /\ ragPc \in {"idle", "done"}
  /\ ragCalls < MaxRagCalls
  /\ ragCalls' = ragCalls + 1
  /\ ragPc' = "invoking"
  /\ ragAttempts' = 0
  /\ ragLog' = <<>>
  /\ ragWaits' = <<>>
  /\ ragReturn' = "pending"
  /\ UNCHANGED <<execVars, extraVars, storeVars, pipeVars, venueVars, matchVars,
                 scoreVars, legacyVars>>

\* One pass of the while body up to the wait: the invoke, the safeParse of
\* its result, and for anything but an accepted result the catch block
RagInvoke(o) ==
  /\ ragPc = "invoking"
  /\ ragAttempts < RagMaxRetries
  /\ ragLog' = Append(ragLog, o)
  /\ IF o = "valid"
       THEN /\ ragReturn' = "data"
            /\ ragPc' = "done"
            /\ UNCHANGED ragAttempts
       ELSE /\ ragAttempts' = ragAttempts + 1
            /\ IF RagGivesUp(ragAttempts')
                 THEN ragReturn' = "undefined" /\ ragPc' = "done"
                 ELSE ragReturn' = ragReturn /\ ragPc' = "waiting"
  /\ UNCHANGED <<ragWaits, ragCalls>>
  /\ UNCHANGED <<execVars, extraVars, storeVars, pipeVars, venueVars, matchVars,
                 scoreVars, legacyVars>>

\* The wait before the next attempt ends; the while condition is tested
RagWaitEnds ==
  /\ ragPc = "waiting"
  /\ ragWaits' = Append(ragWaits, RagDelay(ragAttempts))
  /\ IF ragAttempts < RagMaxRetries
       THEN ragPc' = "invoking" /\ ragReturn' = ragReturn
       ELSE ragPc' = "done" /\ ragReturn' = "undefined"
  /\ UNCHANGED <<ragAttempts, ragLog, ragCalls>>
  /\ UNCHANGED <<execVars, extraVars, storeVars, pipeVars, venueVars, matchVars,
                 scoreVars, legacyVars>>

RagNext ==
  \/ RagStart
  \/ \E o \in RagOutcomes : RagInvoke(o)
  \/ RagWaitEnds

\* Specification of the extraction call
RagSpecInit ==
  /\ ExecInit
  /\ config = DefaultRetryConfig
  /\ events = <<>> /\ artists = <<>>
  /\ PipeIdleInit
  /\ eventsBefore = 0 /\ eventsPrevRun = 0
  /\ VenueIdle
  /\ ExtraIdle
  /\ RagInit /\ MatchIdle /\ LegacyIdle
RagSpecNext == RagNext
RagSpec == RagSpecInit /\ [][RagSpecNext]_vars

\* C21 as stated: a validation failure is never retried: once an invoke's
\* result has failed schema validation, the chain is not invoked again by
\* that call
C21_ValidationNeverRetried ==
  \A i \in 1..Len(ragLog) : ragLog[i] = "invalid" => i = Len(ragLog)

\* C21 amended: callRagChain treats a result that fails schema validation
\* like any other failed attempt: unless it was the third failure the call
\* waits and invokes the chain again, and the call gives up with undefined
\* only after three failed invokes
C21_ValidationRetried ==
  /\ ragPc = "done" /\ ragReturn = "undefined" => Len(ragLog) = RagMaxRetries
  /\ ragPc = "done" /\ ragReturn = "data" =>
       /\ ragLog[Len(ragLog)] = "valid"
       /\ \A i \in 1..(Len(ragLog) - 1) : ragLog[i] # "valid"
  /\ ragPc = "waiting" => ragLog # <<>> /\ Len(ragLog) < RagMaxRetries
  /\ ragLog # <<>> /\ ragLog[Len(ragLog)] = "invalid" /\ Len(ragLog) < RagMaxRetries
       => ragPc \in {"waiting", "invoking"}

\* a call whose first result failed validation and whose second was accepted
C21_Witness ==
  /\ ragPc = "done"
  /\ ragReturn = "data"
  /\ ragLog = <<"invalid", "valid">>

----------------------------------------------------------------------------
\* the awaited create of row k settles in this step
Settles(k) == pipe = "persist" /\ k \in inflight /\ k \notin inflight'

\* the create of row k is answered with a uniqueness violation
HitsUniqueIndex(k) ==
  /\ toTorontoTime(transactionData[k].startDate).valid
  /\ SlotTaken(events, NewEventRow(transactionData[k]))

\* C22: a uniqueness violation the store reports for a create is a benign
\* duplicate: the row's result is null and nothing is stored for it, no error
\* is raised, the creates of the other rows stay awaited with their results
\* untouched, and the list the run returns holds the created events only.
C22_UniqueViolationBenign ==
  [][/\ \A k \in 1..Len(transactionData) :
          (Settles(k) /\ HitsUniqueIndex(k)) =>
            /\ txnResults'[k] = 0
            /\ txnResults' = txnResults
            /\ events' = events
            /\ threw' = threw
            /\ inflight' = inflight \ {k}
     /\ (pipe = "persist" /\ pipe' = "idle" /\ ~threw) =>
          /\ Len(returned') = Cardinality({k \in 1..Len(txnResults) : txnResults[k] > 0})
          /\ \A i \in 1..Len(returned') :
               \E k \in 1..Len(txnResults) :
                 txnResults[k] > 0 /\ returned'[i] = txnResults[k]]_vars

\* a run that returned after the store rejected one row for its slot and
\* created another
C22_Witness ==
  /\ RunOver
  /\ ~threw
  /\ \E k, j \in 1..Len(txnResults) :
       /\ txnResults[k] = 0
       /\ k \notin createFailed
       /\ ~TooOld(toTorontoTime(transactionData[k].startDate), PipeNow)
       /\ txnResults[j] > 0
       /\ events[txnResults[j]].startDate = toTorontoTime(transactionData[k].startDate).ms
       /\ returned = <<txnResults[j]>>

----------------------------------------------------------------------------
\* Database.processAndCreateEvents of the first revision (unnamed/part_018)

\* A candidate of that revision: artist, startDate, endDate, venueId
LegacyCand(artist, startMs) ==
  [Cand(artist, <<>>, IsoString(startMs))
     EXCEPT !.endDate = IsoString(startMs + 2 * HourMs)]

LegacyCandidates ==
  {LegacyCand(NameAbcde, T1), LegacyCand(NameAbcdef, T1),
   LegacyCand(NameXyz, T1), LegacyCand(NameAbcde, T2)}

RECURSIVE LegacyListsUpTo(_)
LegacyListsUpTo(n) ==
  IF n = 0 THEN {<<>>}
  ELSE LET shorter == LegacyListsUpTo(n - 1)
       IN shorter \cup {Append(l, c) : l \in shorter, c \in LegacyCandidates}

LegacyLists == LegacyListsUpTo(MaxCands)

\* prisma.event.findUnique({ where: { startDate_venueId } }): the id, or 0
FindBySlot(evts, scrapedEvent) ==
  LET hits == {i \in 1..Len(evts) :
                 /\ evts[i].venueId = scrapedEvent.venueId
                 /\ evts[i].startDate = scrapedEvent.startDate.ms}
  IN IF hits = {} THEN 0 ELSE CHOOSE i \in hits : TRUE

\* part_018 lines 85-88: prisma.event.update({ data: { cancelled: true } })
CancelExisting(evts, id) == [evts EXCEPT ![id].cancelled = TRUE]

\* Database.checkForDuplicates: whether the candidate is kept, and the Event
\* table afterwards
checkForDuplicates(evts, arts, scrapedEvent) ==
  LET existingEvent == FindBySlot(evts, scrapedEvent) IN
  IF existingEvent = 0
    THEN [keep |-> TRUE, events |-> evts]
  ELSE IF ToLowerCase(arts[evts[existingEvent].artistId])
            = ToLowerCase(scrapedEvent.artist)
    THEN [keep |-> FALSE, events |-> evts]
  ELSE [keep |-> TRUE, events |-> CancelExisting(evts, existingEvent)]

\* The event one create of the transaction inserts
LegacyEventRow(data) ==
  EventRow(data.artist, data.startDate.ms, data.endDate.ms, data.venueId,
           data.artistId, FALSE)

\* prisma.$transaction([...creates]): the Event table after the creates from
\* position k on, or the string "rollback" when one of them violates the
\* unique index the lookup by startDate_venueId relies on
RECURSIVE TransactionFrom(_, _, _)
TransactionFrom(evts, txn, k) ==
  IF k > Len(txn) THEN [ok |-> TRUE, events |-> evts]
  ELSE IF SlotTaken(evts, LegacyEventRow(txn[k]))
    THEN [ok |-> FALSE, events |-> evts]
  ELSE TransactionFrom(Append(evts, LegacyEventRow(txn[k])), txn, k + 1)

LegacyInit ==
  /\ \E st \in SeedStores : events = st.events /\ artists = st.artists
  /\ LegacyIdle

\* processAndCreateEvents is called
LegacyStart(list) ==
  /\ legPc = "idle"
  /\ legEvents' = list
  /\ legIdx' = 1
  /\ legTxn' = <<>>
  /\ legPc' = "loop"
  /\ UNCHANGED <<legThrew, storeVars>>
  /\ UNCHANGED <<execVars, extraVars, pipeVars, venueVars, ragVars, matchVars, scoreVars>>

\* the loop body for one candidate: checkForDuplicates, maybeCreateArtist,
\* push
LegacyCheck ==
  /\ legPc = "loop"
  /\ legIdx <= Len(legEvents)
  /\ legIdx' = legIdx + 1
  /\ LET event == legEvents[legIdx]
         r == checkForDuplicates(events, artists, event)
     IN /\ events' = r.events
        /\ IF r.keep
             THEN /\ artists' = maybeCreateArtist(artists, event.artist)
                  /\ legTxn' = Append(legTxn,
                       TxnRow(event, FindArtist(artists', event.artist), FALSE))
             ELSE UNCHANGED <<artists, legTxn>>
  /\ UNCHANGED <<legPc, legEvents, legThrew>>
  /\ UNCHANGED <<execVars, extraVars, pipeVars, venueVars, ragVars, matchVars, scoreVars>>

\* the $transaction of the creates commits, or rolls back and rejects
LegacyTransaction ==
  /\ legPc = "loop"
  /\ legIdx > Len(legEvents)
  /\ LET t == TransactionFrom(events, legTxn, 1)
     IN /\ events' = IF t.ok THEN t.events ELSE events
        /\ legThrew' = ~t.ok
  /\ legPc' = "done"
  /\ UNCHANGED <<artists, legEvents, legIdx, legTxn>>
  /\ UNCHANGED <<execVars, extraVars, pipeVars, venueVars, ragVars, matchVars, scoreVars>>

LegacyNext ==
  \/ \E list \in LegacyLists : LegacyStart(list)
  \/ LegacyCheck
  \/ LegacyTransaction

\* Specification of the first revision's pipeline over the store
LegacySpecInit ==
  /\ ExecInit
  /\ config = DefaultRetryConfig
  /\ PipeIdleInit
  /\ eventsBefore = 0 /\ eventsPrevRun = 0
  /\ VenueIdle
  /\ ExtraIdle
  /\ RagIdle /\ MatchIdle
  /\ LegacyInit
LegacySpecNext == LegacyNext
LegacySpec == LegacySpecInit /\ [][LegacySpecNext]_vars

\* C23: the pipeline never deletes an event and changes nothing of an existing
\* event except its conflict marking: in every step the Event table keeps its
\* rows, and the name, start, end, venue, artist and cancelled fields of each
\* row stay as they are.
C23_OnlyConflictMarkingChanges ==
  [][/\ Len(events') >= Len(events)
     /\ \A i \in 1..Len(events) :
          /\ events'[i].name = events[i].name
          /\ events'[i].startDate = events[i].startDate
          /\ events'[i].endDate = events[i].endDate
          /\ events'[i].venueId = events[i].venueId
          /\ events'[i].artistId = events[i].artistId
          /\ events'[i].cancelled = events[i].cancelled]_vars

----------------------------------------------------------------------------
\* candidate c of the run has an event name and no artist name
TitleOnly(c) ==
  scrapedEvents[c].eventName # <<>> /\ scrapedEvents[c].artist = <<>>

\* an event the run created for candidate c, owned by the Various artist and
\* named by the candidate's event name
VariousEventFor(c) ==
  /\ rowOf[c] # 0
  /\ txnResults[rowOf[c]] > 0
  /\ events[txnResults[rowOf[c]]].artistId = VariousId
  /\ events[txnResults[rowOf[c]]].name = scrapedEvents[c].eventName

\* C24 as stated: a candidate with an eventName and no usable artistName is
\* not dropped: when the run is over an event owned by the Various artist has
\* been persisted for it.
C24_AlwaysPersistedAsVarious ==
  (RunOver /\ VariousSeeded) =>
    \A c \in 1..Len(scrapedEvents) :
      TitleOnly(c) =>
        \E i \in 1..Len(events) :
          events[i].artistId = VariousId /\ events[i].name = scrapedEvents[c].eventName

\* C24 amended: such a candidate is always queued as a row owned by the
\* Various artist. The row is persisted like any other row: if its start date
\* does not parse the create is rejected and the run throws; if it is stale,
\* its create fails or its slot is taken, nothing is created for it; otherwise
\* the run creates an event owned by Various and named by the eventName.
C24_ReroutedToVarious ==
  (RunOver /\ VariousSeeded) =>
    \A c \in 1..Len(scrapedEvents) :
      TitleOnly(c) =>
        /\ rowOf[c] # 0
        /\ transactionData[rowOf[c]].artistId = VariousId
        /\ LET data == transactionData[rowOf[c]]
               startDate == toTorontoTime(data.startDate)
           IN /\ ~startDate.valid => threw
              /\ (startDate.valid /\ ~TooOld(startDate, PipeNow)
                    /\ rowOf[c] \notin createFailed)
                   => \/ VariousEventFor(c)
                      \/ /\ txnResults[rowOf[c]] = 0
                         /\ SlotTaken(events, NewEventRow(data))

\* a run that persisted a candidate without artist under the Various artist
C24_Witness ==
  /\ RunOver
  /\ ~threw
  /\ \E c \in 1..Len(rowOf) : TitleOnly(c) /\ VariousEventFor(c)

----------------------------------------------------------------------------
\* DbService.checkForDuplicatesAndConflicts applied to one candidate and one
\* store

SecondMs == 1000

NameAbcd == <<"a", "b", "c", "d">>

\* How far the candidate's start is from T1, the start of a stored event
MatchOffsets ==
  {0, 2 * HourMs, 4 * HourMs, 4 * HourMs + SecondMs,
   0 - 4 * HourMs, 0 - (4 * HourMs + SecondMs)}

MatchCandidates ==
  {Cand(n, <<>>, IsoString(T1 + d)) :
     n \in {NameAbcd, NameAbcde, NameSpaced, NameXyz}, d \in MatchOffsets}

MatchArtists == <<<<"V", "a", "r", "i", "o", "u", "s">>, NameAbcde, NameAbcdef>>

\* The stores: one event at T1, or also one at T2, each of either artist
MatchStores ==
  {<<EventRow(<<>>, T1, T1 + 2 * HourMs, "v1", a, FALSE)>> : a \in {2, 3}}
  \cup
  {<<EventRow(<<>>, T1, T1 + 2 * HourMs, "v1", a, FALSE),
     EventRow(<<>>, T2, T2 + 2 * HourMs, "v1", b, FALSE)>> :
     a \in {2, 3}, b \in {2, 3}}

MatchInit ==
  /\ artists = MatchArtists
  /\ events \in MatchStores
  /\ mEvent \in MatchCandidates
  /\ mResult = <<>>

\* checkForDuplicatesAndConflicts(mEvent) returns
Match ==
  /\ mResult = <<>>
  /\ \E r \in checkForDuplicatesAndConflicts(events, artists, mEvent) :
       mResult' = <<r>>
  /\ UNCHANGED <<mEvent, storeVars>>
  /\ UNCHANGED <<execVars, extraVars, pipeVars, venueVars, ragVars, scoreVars, legacyVars>>

MatchNext == Match

\* Specification of the matcher
MatchSpecInit ==
  /\ ExecInit
  /\ config = DefaultRetryConfig
  /\ PipeIdleInit
  /\ eventsBefore = 0 /\ eventsPrevRun = 0
  /\ VenueIdle
  /\ ExtraIdle
  /\ RagIdle /\ ScoreIdle /\ LegacyIdle
  /\ MatchInit
MatchSpecNext == MatchNext
MatchSpec == MatchSpecInit /\ [][MatchSpecNext]_vars

\* the matcher has returned
Matched == mResult # <<>>

\* what the candidate was classified as
MatchClass == Classification(mResult[1])

\* the score of stored event i against the candidate is 0.8 / above 0.8
ScoreIsThreshold(i) ==
  LET sc == MatchScore(events, artists, mEvent, i)
  IN sc[2] # 0 /\ 5 * sc[1] = 4 * sc[2]

ScoreIsAbove(i) ==
  LET sc == MatchScore(events, artists, mEvent, i)
  IN sc[2] # 0 /\ 5 * sc[1] > 4 * sc[2]

\* stored event i names the candidate's artist (the query's name filter)
NameFilterPasses(i) ==
  \/ ContainsInsensitive(artists[events[i].artistId],
                         normalizeArtistName(mEvent.artist))
  \/ ContainsInsensitive(events[i].name, normalizeArtistName(mEvent.artist))

\* the start of stored event i minus the candidate's start
StartOffset(i) == events[i].startDate - toTorontoTime(mEvent.startDate).ms

Abs(n) == IF n < 0 THEN 0 - n ELSE n

\* C25: the similarity threshold is exclusive: a candidate none of whose
\* window events scores strictly above 0.8 is New, also when one of them
\* scores exactly 0.8, and the event a Conflict names scores above 0.8.
C25_ThresholdExclusive ==
  Matched =>
    /\ (\A i \in 1..Len(events) : ~ScoreIsAbove(i)) => MatchClass = "New"
    /\ mResult[1].conflictEvent # 0 => ScoreIsAbove(mResult[1].conflictEvent)

\* a candidate with an event in its window that scores exactly 0.8, found New
C25_Witness ==
  /\ Matched
  /\ MatchClass = "New"
  /\ \E i \in 1..Len(events) :
       ScoreIsThreshold(i) /\ NameFilterPasses(i) /\ Abs(StartOffset(i)) = 2 * HourMs

----------------------------------------------------------------------------
\* The score of calculateSimilarityScore on a pair of normalized names

MaxLen == 3                \* longest name scored

ScoreAlphabet == {"a", "b", "1"}

RECURSIVE NamesUpTo(_)
NamesUpTo(n) ==
  IF n = 0 THEN {<<>>}
  ELSE LET shorter == NamesUpTo(n - 1)
       IN shorter \cup {Append(s, c) : s \in shorter, c \in ScoreAlphabet}

\* every normalized name of at most MaxLen characters
NormalizedNames == NamesUpTo(MaxLen)

ScoreInit ==
  /\ nameA \in NormalizedNames
  /\ nameB \in NormalizedNames
  /\ scoreFwd = <<>>
  /\ scoreBwd = <<>>

\* the score is computed for the pair, in both orders
Score ==
  /\ scoreFwd = <<>>
  /\ scoreFwd' = NameScore(nameA, nameB)
  /\ scoreBwd' = NameScore(nameB, nameA)
  /\ UNCHANGED <<nameA, nameB>>
  /\ UNCHANGED <<execVars, extraVars, storeVars, pipeVars, venueVars, ragVars, matchVars,
                 legacyVars>>

ScoreNext == Score

\* Specification of the similarity score
ScoreSpecInit ==
  /\ ExecInit
  /\ config = DefaultRetryConfig
  /\ events = <<>> /\ artists = <<>>
  /\ PipeIdleInit
  /\ eventsBefore = 0 /\ eventsPrevRun = 0
  /\ VenueIdle
  /\ ExtraIdle
  /\ RagIdle /\ MatchOnlyIdle /\ LegacyIdle
  /\ ScoreInit
ScoreSpecNext == ScoreNext
ScoreSpec == ScoreSpecInit /\ [][ScoreSpecNext]_vars

\* C26: the normalized-Levenshtein similarity is symmetric: for all
\* normalized names a and b the score of b against a is the score of a
\* against b, the same fraction 1 - distance / max(len(a), len(b)) (and not a
\* number on both sides when both names are empty).
C26_ScoreSymmetric ==
  scoreFwd # <<>> =>
    /\ scoreFwd = scoreBwd
    /\ scoreFwd[2] = Max(Len(nameA), Len(nameB))
    /\ nameA = nameB => scoreFwd[1] = scoreFwd[2]

\* a pair of different names of different lengths has been scored both ways
C26_Witness ==
  /\ scoreFwd # <<>>
  /\ Len(nameA) < Len(nameB)
  /\ nameA # <<>>
  /\ scoreFwd[1] > 0
  /\ scoreFwd[1] < scoreFwd[2]
  /\ nameA[1] # nameB[1]

\* stored event i would match the candidate if it is in the window: same
\* venue, name filter passed, score above 0.8
MatchesByName(i) ==
  /\ events[i].venueId = mEvent.venueId
  /\ NameFilterPasses(i)
  /\ ScoreIsAbove(i)

\* C27: the matching window is inclusive at exactly 4 hours: a stored event of
\* the same venue that matches by name and starts exactly 4h before or after
\* the candidate is in the window and makes the candidate a Conflict; when
\* every stored event that matches by name starts more than 4h away (4h0m1s
\* or more) the candidate is New.
C27_WindowInclusive ==
  Matched =>
    /\ (\E i \in 1..Len(events) :
          MatchesByName(i) /\ Abs(StartOffset(i)) = 4 * HourMs)
         => MatchClass = "Conflict"
    /\ (\A i \in 1..Len(events) :
          MatchesByName(i) => Abs(StartOffset(i)) > 4 * HourMs)
         => MatchClass = "New"
    /\ \A i \in 1..Len(events) :
         (i \in PotentialMatches(events, artists, mEvent))
           <=> /\ events[i].venueId = mEvent.venueId
               /\ NameFilterPasses(i)
               /\ Abs(StartOffset(i)) <= 4 * HourMs

\* a candidate was found a Conflict with the only stored event, which starts
\* exactly 4h after it
C27_Witness ==
  /\ Matched
  /\ Len(events) = 1
  /\ MatchesByName(1)
  /\ StartOffset(1) = 4 * HourMs
  /\ MatchClass = "Conflict"
  /\ mResult[1].conflictEvent = 1

\* the window's far edge: the only stored event starts 4h0m1s away
C27_WitnessOutside ==
  /\ Matched
  /\ Len(events) = 1
  /\ MatchesByName(1)
  /\ Abs(StartOffset(1)) = 4 * HourMs + SecondMs
  /\ MatchClass = "New"

\* C28: a candidate is classified Duplicate exactly when some window event
\* scores above 0.8 and starts at the candidate's own start instant, whether
\* or not another window event would make it a Conflict.
C28_DuplicateIffSameInstant ==
  Matched =>
    (MatchClass = "Duplicate"
       <=> \E i \in PotentialMatches(events, artists, mEvent) :
             ScoreIsAbove(i) /\ StartOffset(i) = 0)

----------------------------------------------------------------------------
\* the ids of the events created since the current / last run started
CreatedInRun == (eventsBefore + 1)..Len(events)

\* the members of the list the last run returned
ReturnedSet == {returned[i] : i \in 1..Len(returned)}

C29_WitnessThrown ==
  /\ RunOver
  /\ threw
  /\ CreatedInRun # {}

----------------------------------------------------------------------------
\* C30: when a candidate has no end time, the event persisted for it ends 2
\* hours after it starts: every step that creates an event for a row without
\* endDate stores the row's start instant and that instant plus 2 hours.
C30_DefaultEndTwoHours ==
  [][\A k \in 1..Len(transactionData) :
       (Settles(k) /\ Len(events') = Len(events) + 1
          /\ transactionData[k].endDate = NoString) =>
         LET created == events'[Len(events')]
         IN /\ created.startDate = toTorontoTime(transactionData[k].startDate).ms
            /\ created.endDate = created.startDate + 2 * HourMs]_vars

\* a run created an event for a candidate without end time, ending 2h after
\* its start
C30_Witness ==
  /\ RunOver
  /\ \E c \in 1..Len(rowOf) :
       /\ scrapedEvents[c].endDate = NoString
       /\ rowOf[c] # 0
       /\ txnResults[rowOf[c]] > 0
       /\ events[txnResults[rowOf[c]]].endDate
            = toTorontoTime(scrapedEvents[c].startDate).ms + 2 * HourMs

----------------------------------------------------------------------------
\* convertToTimeZone (shared.ts 99-183; Scraper.convertToTimeZone is the same)

\* A date string is described by the form it is written in, the calendar day
\* it names and the hour of day it names (NoHour when it names none).
\* Forms with a time: ISO 8601 (yyyy-MM-ddTHH:mm...) and the six families of
\* the formats list; forms without: yyyy-MM-dd, MM/dd/yyyy, "MMMM d, yyyy"
NoHour == 0 - 1

FormatForms ==
  {"yyyy-MM-dd HH:mm", "MM/dd/yyyy HH:mm", "MMMM d, yyyy HH:mm",
   "d MMMM yyyy HH:mm", "MMM d, yyyy HH:mm", "d MMM yyyy HH:mm"}

TimedForms == {"ISO"} \cup FormatForms

DateOnlyForms == {"yyyy-MM-dd", "MM/dd/yyyy", "MMMM d, yyyy"}

NormDays == {1, 2, 3}

NormHours == {0, 19, 20}

DateStrings ==
  {[form |-> f, day |-> d, hour |-> h] :
     f \in TimedForms, d \in NormDays, h \in NormHours}
  \cup {[form |-> f, day |-> d, hour |-> NoHour] :
          f \in DateOnlyForms, d \in NormDays}
  \cup {[form |-> "garbage", day |-> 0, hour |-> NoHour]}

\* a luxon DateTime in the target zone: a local day and hour, or invalid
LocalTime(d, h) == [isValid |-> TRUE, day |-> d, hour |-> h]
InvalidLocal == [isValid |-> FALSE, day |-> 0, hour |-> 0]

\* DateTime.fromISO(dateStr, { zone }): ISO 8601 with or without a time; a
\* date without time is midnight
fromISO(str) ==
  IF str.form = "ISO" THEN LocalTime(str.day, str.hour)
  ELSE IF str.form = "yyyy-MM-dd" THEN LocalTime(str.day, 0)
  ELSE InvalidLocal

\* the loop over formats: DateTime.fromFormat with each; every format of the
\* list has a time
fromFormats(str) ==
  IF str.form \in FormatForms THEN LocalTime(str.day, str.hour)
  ELSE InvalidLocal

\* DateTime.fromFormat(dateStr, 'yyyy-MM-dd').set({ hour: 19, ... })
fromDateOnly(str) ==
  IF str.form = "yyyy-MM-dd" THEN LocalTime(str.day, 19) ELSE InvalidLocal

\* convertToTimeZone: the local time of the ISO string returned, or the error
convertToTimeZone(str) ==
  LET dt1 == fromISO(str)
      dt2 == IF ~dt1.isValid THEN fromFormats(str) ELSE dt1
      dt3 == IF ~dt2.isValid THEN fromDateOnly(str) ELSE dt2
  IN IF dt3.isValid
       THEN [threw |-> FALSE, day |-> dt3.day, hour |-> dt3.hour]
       ELSE [threw |-> TRUE, day |-> 0, hour |-> 0]

NormInit ==
  /\ dateStr \in DateStrings
  /\ dateOut = <<>>

\* convertToTimeZone(dateStr) returns or throws
Convert ==
  /\ dateOut = <<>>
  /\ dateOut' = <<convertToTimeZone(dateStr)>>
  /\ UNCHANGED dateStr
  /\ UNCHANGED <<execVars, storeVars, pipeVars, venueVars, ragVars, matchVars,
                 scoreVars, legacyVars, sendVars, dedupVars, getVars>>

NormNext == Convert

\* Specification of the date conversion
NormSpecInit ==
  /\ ExecInit
  /\ config = DefaultRetryConfig
  /\ events = <<>> /\ artists = <<>>
  /\ PipeIdleInit
  /\ eventsBefore = 0 /\ eventsPrevRun = 0
  /\ VenueIdle
  /\ RagIdle /\ MatchIdle /\ LegacyIdle
  /\ SendIdle /\ DedupIdle /\ GetIdle
  /\ NormInit
NormSpecNext == NormNext
NormSpec == NormSpecInit /\ [][NormSpecNext]_vars

\* C31: a date-only input is normalized to 19:00 local time on that date, and
\* an input that no parsing stage accepts makes the conversion fail with an
\* error.
C31_DateOnlyAtNineteen ==
  dateOut # <<>> =>
    /\ dateStr.form = "yyyy-MM-dd" =>
         /\ ~dateOut[1].threw
         /\ dateOut[1].day = dateStr.day
         /\ dateOut[1].hour = 19
    /\ dateStr.form \notin (TimedForms \cup {"yyyy-MM-dd"}) => dateOut[1].threw

----------------------------------------------------------------------------
\* the run created an event for candidate c and did not mark it a conflict
StoredAsNew(c) ==
  /\ rowOf[c] # 0
  /\ txnResults[rowOf[c]] > 0
  /\ ~events[txnResults[rowOf[c]]].conflict
  /\ classified[c].class = "New"

\* candidates c and d of the list collide: same venue, the same normalized
\* artist name, different starts at most 4 hours apart
CollideInList(c, d) ==
  /\ scrapedEvents[c].artist # <<>>
  /\ normalizeArtistName(scrapedEvents[c].artist)
       = normalizeArtistName(scrapedEvents[d].artist)
  /\ scrapedEvents[c].venueId = scrapedEvents[d].venueId
  /\ toTorontoTime(scrapedEvents[c].startDate).valid
  /\ toTorontoTime(scrapedEvents[d].startDate).valid
  /\ scrapedEvents[c].startDate # scrapedEvents[d].startDate
  /\ Abs(toTorontoTime(scrapedEvents[c].startDate).ms
           - toTorontoTime(scrapedEvents[d].startDate).ms) <= 4 * HourMs

\* C32: within one run a candidate is classified against a store that holds
\* the events of the earlier candidates of the list, so two candidates of one
\* list that collide with each other are never both stored as New events
\* without conflict marking.
C32_NoCollidingNewPair ==
  (RunOver /\ VariousSeeded) =>
    \A c, d \in 1..Len(scrapedEvents) :
      (c < d /\ CollideInList(c, d)) => ~(StoredAsNew(c) /\ StoredAsNew(d))

\* C33: every candidate that is persisted, including one rerouted to the
\* Various artist, has first passed duplicate/conflict classification in the
\* same run and was not classified Duplicate.
C33_PersistedWereClassified ==
  (RunOver /\ VariousSeeded) =>
    \A c \in 1..Len(scrapedEvents) :
      (rowOf[c] # 0 /\ txnResults[rowOf[c]] > 0)
        => classified[c].class \in {"New", "Conflict"}

----------------------------------------------------------------------------
\* C34: the failure counter counts failed attempts, not failed calls. One
\* call invokes fn at most maxRetries times and its attempt number, one per
\* invocation, stays within maxRetries while it runs, so it terminates;
\* every failed attempt adds one to the counter; the call goes on to a wait exactly when the counter is still
\* below the threshold and ends at once, opening the circuit, when the
\* counter has reached it; so the first call, which starts from 0, opens the
\* circuit by itself exactly when the threshold is at most maxRetries.
C34_AttemptsCounted ==
  /\ [](/\ opCalls <= config.maxRetries
        /\ pc # "idle" => attempt <= config.maxRetries
        /\ pc = "running" => Len(waited) = attempt - 1 /\ opCalls = attempt
        /\ pc = "waiting" => Len(waited) = attempt /\ opCalls = attempt)
  /\ [][FailedAttempt =>
          /\ failureCount' = failureCount + 1
          /\ IF failureCount' >= config.circuitBreakerThreshold
               THEN pc' = "idle" /\ circuitOpen' /\ outcome' = "CircuitOpened"
               ELSE pc' = "waiting" /\ ~circuitOpen']_vars
  /\ []((totalCalls = 1 /\ pc = "idle" /\ outcome # "ok")
          => /\ circuitOpen <=> config.circuitBreakerThreshold <= config.maxRetries
             /\ failureCount = opCalls)

\* the first call opened the circuit by itself, with its third failed attempt
C34_Witness ==
  /\ totalCalls = 1
  /\ pc = "idle"
  /\ outcome = "CircuitOpened"
  /\ circuitOpen
  /\ opCalls = 3
  /\ failureCount = 3

-----------------------------------------------------------------------------
\* executeWithRetry called without a config argument (AiService.parse and
\* parseScrapedHTML): lines 50-52 build the breaker state of the call

\* variant: one default state shared by all calls without config
ConfigAtCall_Shared(count, last, open) ==
  [failureCount |-> count, lastFailureTime |-> last, circuitOpen |-> open]

\* lines 50-52 with getDefaultRetryConfig (28-38): a new object per call,
\* whatever state (count, last, open) the previous call left in its own
ConfigAtCall(count, last, open) ==
  [failureCount |-> 0, lastFailureTime |-> 0, circuitOpen |-> FALSE]

\* lines 50-66 of a call without config: build the state, test the circuit
\* on it, and either throw "Circuit breaker is open" or call fn for attempt 1
ExecStartFresh ==
  /\ pc = "idle"
  /\ now + CallBudget(config) <= MaxTime
  /\ LoopContinues(1, config)
  /\ LET c == ConfigAtCall(failureCount, lastFailureTime, circuitOpen) IN
       IF c.circuitOpen /\ CircuitBlocks(now, c.lastFailureTime, config)
         THEN /\ outcome' = "CircuitIsOpen"
              /\ opCalls' = 0
              /\ failedCalls' = Bump(failedCalls)
              /\ failureCount' = c.failureCount
              /\ lastFailureTime' = c.lastFailureTime
              /\ circuitOpen' = c.circuitOpen
              /\ halfOpened' = FALSE
              /\ UNCHANGED <<pc, attempt, lastError>>
         ELSE /\ circuitOpen' = FALSE
              /\ failureCount' = IF c.circuitOpen THEN 0 ELSE c.failureCount
              /\ lastFailureTime' = c.lastFailureTime
              /\ halfOpened' = c.circuitOpen
              /\ attempt' = 1
              /\ lastError' = "none"
              /\ opCalls' = 1
              /\ pc' = "running"
              /\ UNCHANGED <<outcome, failedCalls>>
  /\ waited' = <<>>
  /\ totalCalls' = Bump(totalCalls)
  /\ UNCHANGED <<config, now>>
  /\ UNCHANGED <<storeVars, pipeVars, venueVars, auxVars>>

FreshNext ==
  \/ \E d \in TickSteps : Tick(d)
  \/ ExecStartFresh
  \/ AttemptSucceeds
  \/ \E e \in Errors : AttemptFails(e)
  \/ WaitEnds

\* Specification of the retry wrapper called without config
FreshInit ==
  /\ ExecInit
  /\ config = DefaultRetryConfig
  /\ events = <<>> /\ artists = <<>>
  /\ PipeIdleInit
  /\ eventsBefore = 0 /\ eventsPrevRun = 0
  /\ VenueIdle
  /\ ExtraIdle
  /\ RagIdle /\ MatchIdle /\ LegacyIdle
FreshSpec == FreshInit /\ [][FreshNext]_vars

\* C35: without a config argument breaker state does not carry over: every
\* call starts its first attempt Closed with failure count 0 whatever the
\* previous call left, and under the default maxRetries 3 and threshold 5 the
\* circuit is never open, no call is rejected by it and none opens it, a
\* call failing at most 3 times
C35_FreshStatePerCall ==
  /\ [][CallArrives =>
          /\ pc' = "running"
          /\ failureCount' = 0
          /\ ~circuitOpen'
          /\ ~halfOpened']_vars
  /\ [](/\ ~circuitOpen
        /\ failureCount <= config.maxRetries
        /\ failureCount < config.circuitBreakerThreshold
        /\ outcome \notin {"CircuitIsOpen", "CircuitOpened"})

\* a call arrives after an earlier call without config failed on all three
\* attempts, and starts from count 0
C35_Witness ==
  /\ totalCalls >= 2
  /\ failedCalls >= 1
  /\ pc = "running"
  /\ attempt = 1
  /\ failureCount = 0

-----------------------------------------------------------------------------
\* C36: for a breaker state used by sequential calls from count 0 and
\* Closed, in every reachable state the circuit is open only if the failure
\* counter is at least the threshold, and the counter never exceeds the
\* threshold
C36_OpenOnlyAtThreshold ==
  /\ circuitOpen => failureCount >= config.circuitBreakerThreshold
  /\ failureCount <= config.circuitBreakerThreshold
  /\ failureCount >= 0

\* the default breaker opened by the second call in a row that failed: the
\* counter stands at the threshold 5 while the circuit is open
C36_Witness ==
  /\ config = DefaultRetryConfig
  /\ circuitOpen
  /\ failureCount = 5
  /\ totalCalls = 2
  /\ outcome = "CircuitOpened"

-----------------------------------------------------------------------------
\* Scraper.getEvents (scraper/index.ts 342-379, parse 384-418) and
\* AiService.parseScrapedHTML (ai.ts 368-402, parse 333-366): one retried
\* call of parse(), whose body makes retried calls of its own, then the date
\* conversion of the extracted events and one retried call of refineEvents

\* the retried steps of parse(): load, transform, retrieve, rag in the
\* Scraper; transform, retrieve, rag in AiService
ParseSteps(shared) == IF shared THEN 4 ELSE 3

\* the steps of parse() before which an unretried statement can throw:
\* docs[0].pageContent and the vector store's fromDocuments
BodyCanThrowBefore(shared) == IF shared THEN {2, 3} ELSE {1, 2}

\* variant: a date-conversion error escapes the method's catch
Caught_DateErrorEscapes(err) == IF err = "dateError" THEN "raised" ELSE "empty"

\* the catch of getEvents / parseScrapedHTML: log and return []
Caught(err) == "empty"

\* the breaker state an executeWithRetry call works on: the Scraper's fields,
\* or the new default state of a call without config
StateAtCall ==
  IF gShared
    THEN [failureCount |-> gCount, lastFailureTime |-> 0, circuitOpen |-> gOpen]
    ELSE ConfigAtCall(gCount, 0, gOpen)

\* the breaker state the call of the method resumes with when parse() has
\* thrown: the Scraper's fields, or its own state, which has seen only its
\* own failed attempts
StateAtOuterCatch ==
  IF gShared
    THEN [failureCount |-> gCount, lastFailureTime |-> 0, circuitOpen |-> gOpen]
    ELSE [failureCount |-> gOuter - 1, lastFailureTime |-> 0,
          circuitOpen |-> FALSE]

GetInit ==
  /\ gShared \in BOOLEAN
  /\ gPc = "called"
  /\ gOuter = 0
  /\ gStep = 0
  /\ gInner = 0
  /\ gCount = 0
  /\ gOpen = FALSE
  /\ gErr = "none"
  /\ gResult = "pending"
  /\ gLeafCalls = 0

GetRest == UNCHANGED <<execVars, storeVars, pipeVars, venueVars, ragVars,
                       matchVars, scoreVars, legacyVars, normVars, sendVars,
                       dedupVars>>

\* the method calls executeWithRetry(parse): circuit test, then attempt 1
\* (blocked: the timeout of an open circuit has not elapsed)
GetStart(blocked) ==
  /\ gPc = "called"
  /\ LET c == StateAtCall IN
       IF c.circuitOpen /\ blocked
         THEN /\ gErr' = "circuitIsOpen"
              /\ gPc' = "caught"
              /\ gCount' = c.failureCount
              /\ gOpen' = c.circuitOpen
              /\ UNCHANGED <<gOuter, gStep>>
         ELSE /\ gCount' = IF c.circuitOpen THEN 0 ELSE c.failureCount
              /\ gOpen' = FALSE
              /\ gOuter' = 1
              /\ gStep' = 1
              /\ gPc' = "innerCheck"
              /\ UNCHANGED gErr
  /\ UNCHANGED <<gShared, gInner, gResult, gLeafCalls>>
  /\ GetRest

\* an unretried statement of parse() throws: the error reaches the catch of
\* the executeWithRetry call that runs parse()
BodyThrows ==
  /\ gPc = "innerCheck"
  /\ gStep \in BodyCanThrowBefore(gShared)
  /\ gErr' = "failed"
  /\ gPc' = "outerCatch"
  /\ UNCHANGED <<gShared, gOuter, gStep, gInner, gCount, gOpen, gResult,
                 gLeafCalls>>
  /\ GetRest

\* parse() calls executeWithRetry for its next step: circuit test, then
\* attempt 1
InnerStart(blocked) ==
  /\ gPc = "innerCheck"
  /\ LET c == StateAtCall IN
       IF c.circuitOpen /\ blocked
         THEN /\ gErr' = "circuitIsOpen"
              /\ gPc' = "outerCatch"
              /\ gCount' = c.failureCount
              /\ gOpen' = c.circuitOpen
              /\ UNCHANGED gInner
         ELSE /\ gCount' = IF c.circuitOpen THEN 0 ELSE c.failureCount
              /\ gOpen' = FALSE
              /\ gInner' = 1
              /\ gPc' = "leaf"
              /\ UNCHANGED gErr
  /\ UNCHANGED <<gShared, gOuter, gStep, gResult, gLeafCalls>>
  /\ GetRest

\* an attempt of a step of parse() ends. After the last step parse() returns
\* list and the call that ran it succeeds as well; an empty list is returned
\* at once
LeafEnds(ok, list) ==
  /\ gPc = "leaf"
  /\ gLeafCalls' = gLeafCalls + 1
  /\ IF ok
       THEN /\ gCount' = 0
            /\ UNCHANGED <<gOpen, gErr, gInner, gOuter>>
            /\ IF gStep < ParseSteps(gShared)
                 THEN /\ gStep' = gStep + 1
                      /\ gPc' = "innerCheck"
                      /\ UNCHANGED gResult
                 ELSE /\ UNCHANGED gStep
                      /\ IF list = "empty"
                           THEN gPc' = "done" /\ gResult' = "empty"
                           ELSE gPc' = "convert" /\ UNCHANGED gResult
       ELSE /\ gCount' = gCount + 1
            /\ UNCHANGED <<gStep, gInner, gOuter, gResult>>
            /\ IF BreakerTrips(gCount', DefaultRetryConfig)
                 THEN /\ gOpen' = TRUE
                      /\ gErr' = "circuitOpened"
                      /\ gPc' = "outerCatch"
                 ELSE /\ gErr' = "failed"
                      /\ gPc' = "innerWait"
                      /\ UNCHANGED gOpen
  /\ UNCHANGED gShared
  /\ GetRest

\* the backoff of a step's call is over: next attempt, or throw lastError
InnerWaitEnds ==
  /\ gPc = "innerWait"
  /\ gInner' = gInner + 1
  /\ gPc' = IF LoopContinues(gInner', DefaultRetryConfig)
              THEN "leaf" ELSE "outerCatch"
  /\ UNCHANGED <<gShared, gOuter, gStep, gCount, gOpen, gErr, gResult,
                 gLeafCalls>>
  /\ GetRest

\* the catch of the call that runs parse(): count the failure, open the
\* circuit and throw, or back off
OuterCatch ==
  /\ gPc = "outerCatch"
  /\ LET c == StateAtOuterCatch IN
       /\ gCount' = c.failureCount + 1
       /\ IF BreakerTrips(gCount', DefaultRetryConfig)
            THEN /\ gOpen' = TRUE
                 /\ gErr' = "circuitOpened"
                 /\ gPc' = "caught"
            ELSE /\ gOpen' = c.circuitOpen
                 /\ gPc' = "outerWait"
                 /\ UNCHANGED gErr
  /\ UNCHANGED <<gShared, gOuter, gStep, gInner, gResult, gLeafCalls>>
  /\ GetRest

\* its backoff is over: parse() again, or throw lastError
OuterWaitEnds ==
  /\ gPc = "outerWait"
  /\ gOuter' = gOuter + 1
  /\ IF LoopContinues(gOuter', DefaultRetryConfig)
       THEN gPc' = "innerCheck" /\ gStep' = 1
       ELSE gPc' = "caught" /\ UNCHANGED gStep
  /\ UNCHANGED <<gShared, gInner, gCount, gOpen, gErr, gResult, gLeafCalls>>
  /\ GetRest

\* initialEvents.map(validateAndConvertDates): one event whose date does not
\* convert makes the map throw
ConvertDates(ok) ==
  /\ gPc = "convert"
  /\ IF ok THEN gPc' = "refineCheck" /\ UNCHANGED gErr
           ELSE gPc' = "caught" /\ gErr' = "dateError"
  /\ UNCHANGED <<gShared, gOuter, gStep, gInner, gCount, gOpen, gResult,
                 gLeafCalls>>
  /\ GetRest

\* the method calls executeWithRetry(refineEvents)
RefineStart(blocked) ==
  /\ gPc = "refineCheck"
  /\ LET c == StateAtCall IN
       IF c.circuitOpen /\ blocked
         THEN /\ gErr' = "circuitIsOpen"
              /\ gPc' = "caught"
              /\ gCount' = c.failureCount
              /\ gOpen' = c.circuitOpen
              /\ UNCHANGED gOuter
         ELSE /\ gCount' = IF c.circuitOpen THEN 0 ELSE c.failureCount
              /\ gOpen' = FALSE
              /\ gOuter' = 1
              /\ gPc' = "refine"
              /\ UNCHANGED gErr
  /\ UNCHANGED <<gShared, gStep, gInner, gResult, gLeafCalls>>
  /\ GetRest

\* an attempt of refineEvents ends; its list is what the method returns
RefineEnds(ok, list) ==
  /\ gPc = "refine"
  /\ gLeafCalls' = gLeafCalls + 1
  /\ IF ok
       THEN /\ gCount' = 0
            /\ gResult' = list
            /\ gPc' = "done"
            /\ UNCHANGED <<gOpen, gErr>>
       ELSE /\ gCount' = gCount + 1
            /\ UNCHANGED gResult
            /\ IF BreakerTrips(gCount', DefaultRetryConfig)
                 THEN /\ gOpen' = TRUE
                      /\ gErr' = "circuitOpened"
                      /\ gPc' = "caught"
                 ELSE /\ gErr' = "failed"
                      /\ gPc' = "refineWait"
                      /\ UNCHANGED gOpen
  /\ UNCHANGED <<gShared, gOuter, gStep, gInner>>
  /\ GetRest

RefineWaitEnds ==
  /\ gPc = "refineWait"
  /\ gOuter' = gOuter + 1
  /\ gPc' = IF LoopContinues(gOuter', DefaultRetryConfig)
              THEN "refine" ELSE "caught"
  /\ UNCHANGED <<gShared, gStep, gInner, gCount, gOpen, gErr, gResult,
                 gLeafCalls>>
  /\ GetRest

\* the catch of the method
GetCatches ==
  /\ gPc = "caught"
  /\ gResult' = Caught(gErr)
  /\ gPc' = "done"
  /\ UNCHANGED <<gShared, gOuter, gStep, gInner, gCount, gOpen, gErr,
                 gLeafCalls>>
  /\ GetRest

ListKinds == {"events", "empty"}

GetNext ==
  \/ \E b \in BOOLEAN : GetStart(b)
  \/ BodyThrows
  \/ \E b \in BOOLEAN : InnerStart(b)
  \/ \E ok \in BOOLEAN, list \in ListKinds : LeafEnds(ok, list)
  \/ InnerWaitEnds
  \/ OuterCatch
  \/ OuterWaitEnds
  \/ \E ok \in BOOLEAN : ConvertDates(ok)
  \/ \E b \in BOOLEAN : RefineStart(b)
  \/ \E ok \in BOOLEAN, list \in ListKinds : RefineEnds(ok, list)
  \/ RefineWaitEnds
  \/ GetCatches

\* Specification of one call of the extraction method; every operation it
\* awaits settles and every timer fires
GetSpecInit ==
  /\ ExecInit
  /\ config = DefaultRetryConfig
  /\ events = <<>> /\ artists = <<>>
  /\ PipeIdleInit
  /\ eventsBefore = 0 /\ eventsPrevRun = 0
  /\ VenueIdle
  /\ RagIdle /\ MatchIdle /\ LegacyIdle
  /\ NormIdle /\ SendIdle /\ DedupIdle
  /\ GetInit
GetSpec == GetSpecInit /\ [][GetNext]_vars /\ WF_vars(GetNext)

\* C37: Scraper.getEvents and AiService.parseScrapedHTML terminate and never
\* raise to their caller: whatever error reaches the method's catch (the
\* last error of an exhausted retried call, nested or not, a circuit error,
\* the date-conversion error of one extracted event) is answered with the
\* empty list for the whole venue; the method makes a bounded number of
\* attempts and always ends with a list
C37_NeverRaises ==
  /\ [](gResult \in {"pending", "events", "empty"})
  /\ [](gPc = "done" <=> gResult \in ListKinds)
  /\ [][gPc = "caught" => gPc' = "done" /\ gResult' = "empty"]_vars
  /\ [][(gErr # gErr' /\ gErr' \in {"dateError", "circuitIsOpen"})
          => gPc' \in {"caught", "outerCatch"}]_vars
  /\ [][gPc = "outerCatch" => gPc' \in {"caught", "outerWait"}]_vars
  /\ [](/\ gOuter <= DefaultRetryConfig.maxRetries + 1
        /\ gInner <= DefaultRetryConfig.maxRetries + 1
        /\ gLeafCalls <= DefaultRetryConfig.maxRetries
                           * (ParseSteps(gShared) * DefaultRetryConfig.maxRetries)
                         + DefaultRetryConfig.maxRetries)
  /\ <>(gPc = "done")

\* the Scraper's call of parse() failed once with its step's retries used
\* up and a second time when a step's failure opened the shared circuit; the
\* method returned the empty list
C37_Witness ==
  /\ gShared
  /\ gPc = "done"
  /\ gErr = "circuitOpened"
  /\ gOpen
  /\ gOuter = 2
  /\ gCount = 6
  /\ gResult = "empty"

\* one extracted event's date did not convert: the empty list for the venue
C37_WitnessDateError ==
  /\ gPc = "done"
  /\ gErr = "dateError"
  /\ gResult = "empty"

-----------------------------------------------------------------------------
\* C38: callRagChain invokes the chain at most 3 times, waits 1000 ms times
\* the number of failed attempts before the next attempt, and after the third
\* failure returns undefined without a wait instead of raising: every call
\* ends by returning data or undefined, so the executeWithRetry call around
\* it sees a fulfilled attempt and has nothing to retry
C38_RagReturnsUndefined ==
  /\ Len(ragLog) <= RagMaxRetries
  /\ \A i \in 1..Len(ragWaits) : ragWaits[i] = 1000 * i
  /\ ragPc = "invoking" => Len(ragWaits) = Len(ragLog)
  /\ ragPc = "waiting" => Len(ragWaits) = Len(ragLog) - 1
  /\ ragPc = "done" =>
       /\ ragReturn \in {"data", "undefined"}
       /\ Len(ragWaits) = Len(ragLog) - 1
       /\ ragReturn = "undefined" <=>
            /\ Len(ragLog) = RagMaxRetries
            /\ \A i \in 1..Len(ragLog) : ragLog[i] # "valid"

\* three failed invokes, of three kinds, with waits of 1 s and 2 s between
\* them and none after the third: the call returned undefined
C38_Witness ==
  /\ ragPc = "done"
  /\ ragReturn = "undefined"
  /\ ragLog = <<"error", "syntax", "invalid">>
  /\ ragWaits = <<1000, 2000>>

-----------------------------------------------------------------------------
\* sendWithRetries (src/unnamed/part_007 81-106)

MaxSendRetries == 3        \* largest retries argument passed explicitly

\* an argument left out
NoArg == 0 - 1

\* retries = 8
RetriesOf(arg) == IF arg = NoArg THEN 8 ELSE arg

\* duration = 2000
DurationOf(arg) == IF arg = NoArg THEN 2000 ELSE arg

SendRetriesArgs == {NoArg} \cup (0..MaxSendRetries)

SendDurationArgs == {NoArg, 1000}

\* what one call of the callback can do: resolve with a value, or reject
CallbackOutcomes == {"r1", "r2", "fail"}

\* variant: the last attempt is not recognised
SendIsLast_Never(a, n) == FALSE

\* if (attempt === retries)
SendIsLast(a, n) == a = n

\* duration * 2 ** (attempt - 1)
SendBackoff(d, a) == d * Pow2(a - 1)

SendInit ==
  /\ sendRetries \in SendRetriesArgs
  /\ sendDuration \in SendDurationArgs
  /\ sendPc = "called"
  /\ sendAttempt = 0
  /\ sendLog = <<>>
  /\ sendWaits = <<>>
  /\ sendResult = "pending"
  /\ sendError = 0

SendRest == UNCHANGED <<execVars, storeVars, pipeVars, venueVars, ragVars,
                        matchVars, scoreVars, legacyVars, normVars, dedupVars,
                        getVars>>

\* the for loop is entered: attempt = 1 and its test; after the loop,
\* throw new Error("No retries remaining")
SendStart ==
  /\ sendPc = "called"
  /\ sendAttempt' = 1
  /\ IF 1 <= RetriesOf(sendRetries)
       THEN sendPc' = "calling" /\ UNCHANGED sendResult
       ELSE sendPc' = "done" /\ sendResult' = "threw"
  /\ UNCHANGED <<sendRetries, sendDuration, sendLog, sendWaits, sendError>>
  /\ SendRest

\* await callback() settles: return its value, rethrow its error on the
\* last attempt, or start the backoff
SendCall(o) ==
  /\ sendPc = "calling"
  /\ sendLog' = Append(sendLog, o)
  /\ IF o # "fail"
       THEN /\ sendResult' = o
            /\ sendPc' = "done"
            /\ UNCHANGED sendError
       ELSE IF SendIsLast(sendAttempt, RetriesOf(sendRetries))
         THEN /\ sendResult' = "threw"
              /\ sendError' = sendAttempt
              /\ sendPc' = "done"
         ELSE /\ sendPc' = "waiting"
              /\ UNCHANGED <<sendResult, sendError>>
  /\ UNCHANGED <<sendRetries, sendDuration, sendAttempt, sendWaits>>
  /\ SendRest

\* await nodeSetTimeout(backoff) is over: attempt++ and the loop test
SendWaitEnds ==
  /\ sendPc = "waiting"
  /\ sendWaits' = Append(sendWaits,
                         SendBackoff(DurationOf(sendDuration), sendAttempt))
  /\ sendAttempt' = sendAttempt + 1
  /\ IF sendAttempt' <= RetriesOf(sendRetries)
       THEN sendPc' = "calling" /\ UNCHANGED sendResult
       ELSE sendPc' = "done" /\ sendResult' = "threw"
  /\ UNCHANGED <<sendRetries, sendDuration, sendLog, sendError>>
  /\ SendRest

SendNext ==
  \/ SendStart
  \/ \E o \in CallbackOutcomes : SendCall(o)
  \/ SendWaitEnds

\* Specification of one call of sendWithRetries
SendSpecInit ==
  /\ ExecInit
  /\ config = DefaultRetryConfig
  /\ events = <<>> /\ artists = <<>>
  /\ PipeIdleInit
  /\ eventsBefore = 0 /\ eventsPrevRun = 0
  /\ VenueIdle
  /\ RagIdle /\ MatchIdle /\ LegacyIdle
  /\ NormIdle /\ DedupIdle /\ GetIdle
  /\ SendInit
SendSpec == SendSpecInit /\ [][SendNext]_vars

\* C39: sendWithRetries invokes the callback at most retries times and
\* returns the first value the callback resolves with; after each failed
\* attempt but the last it waits duration * 2^(attempt-1); on the failure of
\* attempt number retries it rethrows that attempt's error without waiting
C39_RetriesWithBackoff ==
  /\ Len(sendLog) <= RetriesOf(sendRetries)
  /\ \A i \in 1..Len(sendWaits) :
       sendWaits[i] = DurationOf(sendDuration) * Pow2(i - 1)
  /\ \A i \in 1..(Len(sendLog) - 1) : sendLog[i] = "fail"
  /\ sendPc = "calling" => Len(sendWaits) = Len(sendLog)
  /\ sendPc = "waiting" =>
       /\ Len(sendWaits) = Len(sendLog) - 1
       /\ Len(sendLog) < RetriesOf(sendRetries)
       /\ sendLog[Len(sendLog)] = "fail"
  /\ (sendPc = "done" /\ sendLog # <<>>) =>
       /\ Len(sendWaits) = Len(sendLog) - 1
       /\ IF sendLog[Len(sendLog)] = "fail"
            THEN /\ sendResult = "threw"
                 /\ Len(sendLog) = RetriesOf(sendRetries)
                 /\ sendError = Len(sendLog)
            ELSE /\ sendResult = sendLog[Len(sendLog)]
                 /\ sendError = 0

\* three attempts allowed, all three failed: waits of 1 s and 2 s, none
\* after the third, whose error was rethrown
C39_Witness ==
  /\ sendRetries = 3
  /\ sendDuration = 1000
  /\ sendPc = "done"
  /\ sendLog = <<"fail", "fail", "fail">>
  /\ sendWaits = <<1000, 2000>>
  /\ sendResult = "threw"
  /\ sendError = 3

\* default arguments: the third attempt resolved, after waits of 2 s and 4 s
C39_WitnessReturned ==
  /\ sendRetries = NoArg
  /\ sendDuration = NoArg
  /\ sendPc = "done"
  /\ sendLog = <<"fail", "fail", "r2">>
  /\ sendWaits = <<2000, 4000>>
  /\ sendResult = "r2"

-----------------------------------------------------------------------------
\* deduplicateEvents (src/unnamed/part_010 3-20); strings are sequences of
\* characters

MaxDedupLen == 2           \* longest list given to deduplicateEvents

\* String.prototype.trim
RECURSIVE trim(_)
trim(s) ==
  IF s = <<>> THEN s
  ELSE IF Head(s) = " " THEN trim(Tail(s))
  ELSE IF s[Len(s)] = " " THEN trim(SubSeq(s, 1, Len(s) - 1))
  ELSE s

\* normalizeArtistName of the schema module: name.toLowerCase().trim()
normalizeArtist(name) == trim(ToLowerCase(name))

\* `${normalizeArtist(event.artist)}|${event.startDate}|${event.venueId}`
EventKey(event) ==
  normalizeArtist(event.artist) \o <<"|">> \o event.startDate
    \o <<"|">> \o event.venueId

\* events.filter(...) with the Set seen, from position i on
RECURSIVE DedupFrom(_, _, _)
DedupFrom(list, i, seen) ==
  IF i > Len(list) THEN <<>>
  ELSE IF EventKey(list[i]) \in seen
    THEN DedupFrom(list, i + 1, seen)
    ELSE <<list[i]>> \o DedupFrom(list, i + 1, seen \cup {EventKey(list[i])})

deduplicateEvents(list) == DedupFrom(list, 1, {})

\* artist: z.string().min(1)
DedupArtists == {<<"x">>, <<"X">>, <<"x", " ">>, <<"x", "|", "1">>}

\* startDate: strings the Date constructor accepts ("1", "2": two dates)
DedupDates == {<<"1">>, <<"2">>}

\* venueId: z.string()
DedupVenues == {<<"v">>, <<"2", "|", "v">>}

DedupEvents == [artist : DedupArtists, startDate : DedupDates,
                venueId : DedupVenues]

RECURSIVE DedupListsUpTo(_)
DedupListsUpTo(n) ==
  IF n = 0 THEN {<<>>}
  ELSE LET shorter == DedupListsUpTo(n - 1) IN
         shorter \cup {Append(l, e) : l \in {s \in shorter : Len(s) = n - 1},
                                      e \in DedupEvents}

DedupInit ==
  /\ dedupIn \in DedupListsUpTo(MaxDedupLen)
  /\ dedupOut = <<>>
  /\ dedupAgain = <<>>

\* scrapedEventsSchema's transform is applied to the list, and once more to
\* its own output
Deduplicate ==
  /\ dedupOut = <<>>
  /\ dedupOut' = <<deduplicateEvents(dedupIn)>>
  /\ dedupAgain' = <<deduplicateEvents(deduplicateEvents(dedupIn))>>
  /\ UNCHANGED dedupIn
  /\ UNCHANGED <<execVars, storeVars, pipeVars, venueVars, ragVars, matchVars,
                 scoreVars, legacyVars, normVars, sendVars, getVars>>

DedupNext == Deduplicate

\* Specification of the deduplication
DedupSpecInit ==
  /\ ExecInit
  /\ config = DefaultRetryConfig
  /\ events = <<>> /\ artists = <<>>
  /\ PipeIdleInit
  /\ eventsBefore = 0 /\ eventsPrevRun = 0
  /\ VenueIdle
  /\ RagIdle /\ MatchIdle /\ LegacyIdle
  /\ NormIdle /\ SendIdle /\ GetIdle
  /\ DedupInit
DedupSpecNext == DedupNext
DedupSpec == DedupSpecInit /\ [][DedupSpecNext]_vars

\* the key of the claim: lower-cased trimmed artist, startDate, venueId
KeyTriple(event) ==
  <<normalizeArtist(event.artist), event.startDate, event.venueId>>

\* the positions of list holding the first event of their key triple
FirstOfTriple(list) ==
  {i \in 1..Len(list) :
     \A j \in 1..(i - 1) : KeyTriple(list[j]) # KeyTriple(list[i])}

RECURSIVE KeepPositions(_, _, _)
KeepPositions(list, i, keep) ==
  IF i > Len(list) THEN <<>>
  ELSE IF i \in keep THEN <<list[i]>> \o KeepPositions(list, i + 1, keep)
  ELSE KeepPositions(list, i + 1, keep)

\* C40: deduplicateEvents keeps, in input order, exactly the first event of
\* each key (lower-cased trimmed artist, startDate, venueId), and applying it
\* to its own output returns that output unchanged
C40_FirstPerKeyIdempotent ==
  dedupOut # <<>> =>
    /\ dedupOut[1] = KeepPositions(dedupIn, 1, FirstOfTriple(dedupIn))
    /\ dedupAgain[1] = dedupOut[1]

\* the part of C40 that holds: the function is idempotent, keeps a
\* subsequence beginning with the first event, and what it drops has the key
\* string of an earlier event
C40_Idempotent ==
  dedupOut # <<>> =>
    /\ dedupAgain[1] = dedupOut[1]
    /\ dedupIn # <<>> => dedupOut[1] # <<>> /\ dedupOut[1][1] = dedupIn[1]
    /\ \A i \in 1..Len(dedupIn) :
         \E j \in 1..i : /\ EventKey(dedupIn[j]) = EventKey(dedupIn[i])
                         /\ \E k \in 1..Len(dedupOut[1]) :
                              dedupOut[1][k] = dedupIn[j]

\* two events with different key triples and one key string: the second is
\* dropped
C40_WitnessCollision ==
  /\ Len(dedupIn) = 2
  /\ KeyTriple(dedupIn[1]) # KeyTriple(dedupIn[2])
  /\ dedupOut # <<>>
  /\ Len(dedupOut[1]) = 1

====
